---- MODULE Spec2Model ----
(***************************************************************************)
(* Verification model of rds_cost_estimator: the pricing client and its   *)
(* cache, the run_v2 pipeline of the estimator (parallel price lookup,     *)
(* reserved-instance fallback, price index, template data), and the AWR    *)
(* dump parser (file merge, source precedence, column offsets, snapshot    *)
(* aggregation).                                                           *)
(*                                                                         *)
(* Prices are integers in ticks of 1/36 cent, so that a 3-year total       *)
(* divided by 3 and an annual cost divided by 12 stay exact.  The places   *)
(* where the program rounds to cents (round(x, 2), the ",.2f" format) are  *)
(* the operator RoundHalfEven; formatted values are integers in cents.     *)
(***************************************************************************)
EXTENDS Integers, Sequences, FiniteSets, TLC

VARIABLES
    cache,        \* PricingClient._cache: cache key -> CostRecord
    tasks,        \* fetch_all coroutines: position, response, result
    phase,        \* position of run_v2 (or "client" in the client harness)
    run_args,     \* CLI arguments and parsed document info used by run_v2
    all_records,  \* run_v2: all_records, flattened gather results
    db,           \* DuckDBStore.pricing_records: key -> row
    pending,      \* _apply_ri_fallback: rows still to be looked up
    offered,      \* offerings the RDS API returned during the fallback
    price_index,  \* run_v2: price_index
    data,         \* template data returned by run_v2
    section,      \* _parse_main_metrics_full: the MAIN-METRICS section read
    rows,         \* _parse_main_metrics_full: rows, one dict per data line
    main_metrics, \* _parse_main_metrics_full: the dict it returns
    fs,           \* what the file system holds at the path given to parse()
    pc,           \* position of DocumentParser.parse
    out_parsed,   \* _parse_awr_out_full: section dicts of the files read
    merged,       \* _parse_awr_out_full: merged
    doc_info      \* parse: result, the ParsedDocumentInfo being filled

pricingVars == <<cache, tasks, phase, run_args, all_records, db, pending,
                 offered, price_index, data>>

metricsVars == <<section, rows, main_metrics>>

documentVars == <<fs, pc, out_parsed, merged, doc_info>>

parserVars == <<metricsVars, documentVars>>

vars == <<pricingVars, parserVars>>

\* Python None in Optional[float] fields of CostRecord and of DB rows.
None == -1

HOURS_PER_MONTH == 730

\* Ticks in a cent.
Cent == 36

Min(a, b) == IF a < b THEN a ELSE b

Max(a, b) == IF a > b THEN a ELSE b

\* round(n/d) to the nearest integer, ties to the even neighbour (n >= 0).
RoundHalfEven(n, d) ==
    LET q == n \div d
        r == n % d
    IN  IF 2 * r < d THEN q
        ELSE IF 2 * r > d THEN q + 1
        ELSE IF q % 2 = 0 THEN q ELSE q + 1

\* round(x, 2) of an amount in ticks; the result is in ticks.
round2(x) == RoundHalfEven(x, Cent) * Cent

-----------------------------------------------------------------------------
(* models.py                                                               *)

ON_DEMAND == "on_demand"

RI_1YR_NO_UPFRONT == "1yr_no_upfront"

RI_1YR_ALL_UPFRONT == "1yr_all_upfront"

RI_3YR_NO_UPFRONT == "3yr_no_upfront"

RI_3YR_ALL_UPFRONT == "3yr_all_upfront"

\* Enum members the pricing client refers to; models.py does not list them,
\* tests/test_models.py fixes their values.
RI_1YR == "1yr_partial_upfront"

RI_3YR == "3yr_partial_upfront"

Region == "ap-northeast-2"

Engine == "oracle-ee"

InstanceSpec(inst, deploy) ==
    [instance_type |-> inst, region |-> Region, engine |-> Engine,
     deployment_option |-> deploy]

\* An annual cost over months of 30 days for on-demand.
compute_annual_cost_30_days(pt, hourly_rate, upfront_fee, monthly_fee, annual_cost) ==
    IF annual_cost # None THEN annual_cost
    ELSE IF pt = ON_DEMAND
    THEN IF hourly_rate # None
         THEN hourly_rate * 24 * 30 * 12 ELSE None
    ELSE IF pt \in {RI_1YR_NO_UPFRONT, RI_1YR_ALL_UPFRONT}
    THEN IF upfront_fee # None /\ monthly_fee # None
         THEN upfront_fee + monthly_fee * 12 ELSE None
    ELSE IF pt \in {RI_3YR_NO_UPFRONT, RI_3YR_ALL_UPFRONT}
    THEN IF upfront_fee # None /\ monthly_fee # None
         THEN (upfront_fee + monthly_fee * 36) \div 3 ELSE None
    ELSE None

\* CostRecord.compute_annual_cost.
compute_annual_cost(pt, hourly_rate, upfront_fee, monthly_fee, annual_cost) ==
    IF annual_cost # None THEN annual_cost
    ELSE IF pt = ON_DEMAND
    THEN IF hourly_rate # None
         THEN hourly_rate * HOURS_PER_MONTH * 12 ELSE None
    ELSE IF pt \in {RI_1YR_NO_UPFRONT, RI_1YR_ALL_UPFRONT}
    THEN IF upfront_fee # None /\ monthly_fee # None
         THEN upfront_fee + monthly_fee * 12 ELSE None
    ELSE IF pt \in {RI_3YR_NO_UPFRONT, RI_3YR_ALL_UPFRONT}
    THEN IF upfront_fee # None /\ monthly_fee # None
         THEN (upfront_fee + monthly_fee * 36) \div 3 ELSE None
    ELSE None

CostRecord(spec, pt, hourly_rate, upfront_fee, monthly_fee, annual_cost, is_available) ==
    [spec |-> spec, pricing_type |-> pt, hourly_rate |-> hourly_rate,
     upfront_fee |-> upfront_fee, monthly_fee |-> monthly_fee,
     annual_cost |-> compute_annual_cost(pt, hourly_rate, upfront_fee,
                                         monthly_fee, annual_cost),
     is_available |-> is_available]

\* CostRecord.monthly_cost.
monthly_cost(rec) ==
    IF rec.annual_cost # None THEN rec.annual_cost \div 12 ELSE None

-----------------------------------------------------------------------------
(* pricing_client.py                                                       *)

\* The pricing types fetch_all asks for, in its order.
pricing_types == <<ON_DEMAND, RI_1YR_ALL_UPFRONT, RI_3YR_ALL_UPFRONT>>

cache_key(spec, pt) ==
    <<spec.instance_type, spec.region, spec.engine, spec.deployment_option,
      pt>>

\* GetProducts price list: hourly on-demand price of an instance.
OnDemandUSD(spec) ==
    (IF spec.instance_type = "db.r7i.xlarge" THEN 110 ELSE 100)
    * (IF spec.deployment_option = "Multi-AZ" THEN 2 ELSE 1) * Cent

\* GetProducts price list: the reserved term's "Quantity" (upfront) and "Hrs"
\* price dimensions.
ReservedUSD(spec, pt) ==
    [quantity |-> OnDemandUSD(spec) * (IF pt = RI_1YR_ALL_UPFRONT
                                       THEN 5000 ELSE 10000),
     hrs |-> 0]

\* What one GetProducts call can answer: an exception, or a price list with
\* terms for some of the pricing types.
Responses ==
    {[failed |-> TRUE, terms |-> {}],
     [failed |-> FALSE, terms |-> {ON_DEMAND, RI_3YR_ALL_UPFRONT}],
     [failed |-> FALSE,
      terms |-> {ON_DEMAND, RI_1YR_ALL_UPFRONT, RI_3YR_ALL_UPFRONT}]}

NoResponse == [failed |-> FALSE, terms |-> {"none"}]

\* _parse_response for the on-demand term: found is FALSE where the code
\* raises PricingDataNotFoundError.
parse_response(response, spec, pt) ==
    IF pt \notin response.terms
    THEN [found |-> FALSE,
          record |-> CostRecord(spec, pt, None, None, None, None, FALSE)]
    ELSE [found |-> TRUE,
          record |-> CostRecord(spec, pt, OnDemandUSD(spec), None, None,
                                None, TRUE)]

\* _parse_ri_response: monthly_fee = hourly_fee * 730.
parse_ri_response(response, spec, pt) ==
    IF pt \notin response.terms
    THEN [found |-> FALSE,
          record |-> CostRecord(spec, pt, None, None, None, None, FALSE)]
    ELSE [found |-> TRUE,
          record |-> CostRecord(spec, pt, None, ReservedUSD(spec, pt).quantity,
                                ReservedUSD(spec, pt).hrs * 730, None, TRUE)]

\* fetch_all up to its await: the all-cached shortcut.
fetch_all_cached(c, spec) ==
    IF \A i \in 1..Len(pricing_types) :
           cache_key(spec, pricing_types[i]) \in DOMAIN c
    THEN [pc |-> "done", kind |-> "return",
          records |-> [i \in 1..Len(pricing_types) |->
                          c[cache_key(spec, pricing_types[i])]]]
    ELSE [pc |-> "awaiting", kind |-> "pending", records |-> <<>>]

\* Variant of fetch_all_except that lets the exception escape, as
\* fetch_on_demand does.
fetch_all_except_raises(spec) ==
    [kind |-> "raise", records |-> <<>>]

\* fetch_all, the handler of an exception of the API call: one unavailable
\* record per pricing type is returned.
fetch_all_except(spec) ==
    [kind |-> "return",
     records |-> [i \in 1..Len(pricing_types) |->
                     CostRecord(spec, pricing_types[i], None, None, None,
                                None, FALSE)]]

\* Variant of fetch_all_parse that stores the record of a pricing type
\* without a price like a parsed one.
fetch_all_parse_stores_unavailable(c, response, spec, pt) ==
    IF cache_key(spec, pt) \in DOMAIN c
    THEN [cached |-> TRUE, found |-> TRUE, record |-> c[cache_key(spec, pt)]]
    ELSE LET p == IF pt = ON_DEMAND
                  THEN parse_response(response, spec, pt)
                  ELSE parse_ri_response(response, spec, pt)
         IN  [cached |-> FALSE, found |-> TRUE,
              record |-> IF p.found THEN p.record
                         ELSE CostRecord(spec, pt, None, None, None, None,
                                         FALSE)]

\* fetch_all, one iteration of the parsing loop for pricing type pt.
fetch_all_parse(c, response, spec, pt) ==
    IF cache_key(spec, pt) \in DOMAIN c
    THEN [cached |-> TRUE, found |-> TRUE, record |-> c[cache_key(spec, pt)]]
    ELSE LET p == IF pt = ON_DEMAND
                  THEN parse_response(response, spec, pt)
                  ELSE parse_ri_response(response, spec, pt)
         IN  [cached |-> FALSE, found |-> p.found,
              record |-> IF p.found THEN p.record
                         ELSE CostRecord(spec, pt, None, None, None, None,
                                         FALSE)]

\* Variant of fetch_all_resume in which the records the all-cached loop
\* appended before its break are not dropped when the API call fails.
fetch_all_resume_keeps_records(c, response, spec) ==
    LET cached(i) == cache_key(spec, pricing_types[i]) \in DOMAIN c
        lead == Cardinality({i \in 1..Len(pricing_types) :
                                \A j \in 1..i : cached(j)})
        kept == [i \in 1..lead |-> c[cache_key(spec, pricing_types[i])]]
        parsed == [i \in 1..Len(pricing_types) |->
                      fetch_all_parse(c, response, spec, pricing_types[i])]
        fresh == {i \in 1..Len(pricing_types) :
                     ~parsed[i].cached /\ parsed[i].found}
        keys == {cache_key(spec, pricing_types[i]) : i \in fresh}
    IN  IF response.failed
        THEN [result |-> [kind |-> "return",
                          records |-> kept \o fetch_all_except(spec).records],
              cache |-> c]
        ELSE [result |-> [kind |-> "return",
                          records |-> [i \in 1..Len(pricing_types) |->
                                          parsed[i].record]],
              cache |-> [k \in DOMAIN c \cup keys |->
                            IF k \in DOMAIN c THEN c[k]
                            ELSE parsed[CHOOSE i \in fresh :
                                     cache_key(spec, pricing_types[i]) = k
                                 ].record]]

\* fetch_all after its await: the records returned and the cache left behind.
fetch_all_resume(c, response, spec) ==
    IF response.failed
    THEN [result |-> fetch_all_except(spec), cache |-> c]
    ELSE LET parsed == [i \in 1..Len(pricing_types) |->
                           fetch_all_parse(c, response, spec, pricing_types[i])]
             fresh == {i \in 1..Len(pricing_types) :
                          ~parsed[i].cached /\ parsed[i].found}
             keys == {cache_key(spec, pricing_types[i]) : i \in fresh}
         IN  [result |-> [kind |-> "return",
                          records |-> [i \in 1..Len(pricing_types) |->
                                          parsed[i].record]],
              cache |-> [k \in DOMAIN c \cup keys |->
                            IF k \in DOMAIN c THEN c[k]
                            ELSE parsed[CHOOSE i \in fresh :
                                     cache_key(spec, pricing_types[i]) = k
                                 ].record]]

\* A fetch_all coroutine: what it was called with, which of its cache keys
\* were cached when it was called, and its outcome.
NewTask(c, spec) ==
    [spec |-> spec,
     hit |-> {i \in 1..Len(pricing_types) :
                 cache_key(spec, pricing_types[i]) \in DOMAIN c},
     response |-> NoResponse]
    @@ fetch_all_cached(c, spec)

-----------------------------------------------------------------------------
(* Client harness: fetch_all is called repeatedly on one PricingClient.    *)

MaxCalls == 3

ClientSpecs ==
    {InstanceSpec("db.r6i.xlarge", "Single-AZ"),
     InstanceSpec("db.r6i.xlarge", "Multi-AZ")}

EmptyFn == [k \in {} |-> 0]

\* The document parser before parse() is called.
ParserIdle ==
    /\ section = EmptyFn
    /\ rows = <<>>
    /\ main_metrics = EmptyFn
    /\ fs = EmptyFn
    /\ pc = "idle"
    /\ out_parsed = <<>>
    /\ merged = EmptyFn
    /\ doc_info = EmptyFn

InitClient ==
    /\ cache = EmptyFn
    /\ tasks = <<>>
    /\ phase = "client"
    /\ run_args = EmptyFn
    /\ all_records = <<>>
    /\ db = EmptyFn
    /\ pending = <<>>
    /\ offered = EmptyFn
    /\ price_index = EmptyFn
    /\ data = EmptyFn
    /\ ParserIdle

\* A caller awaits fetch_all(spec).
FetchAllCall(spec) ==
    /\ phase = "client"
    /\ Len(tasks) < MaxCalls
    /\ tasks' = Append(tasks, NewTask(cache, spec))
    /\ UNCHANGED parserVars
    /\ UNCHANGED <<cache, phase, run_args, all_records, db, pending, offered,
                   price_index, data>>

\* The executor finishes the GetProducts call of task t and fetch_all runs
\* to its return.
FetchAllResume(t, response) ==
    /\ tasks[t].pc = "awaiting"
    /\ LET r == fetch_all_resume(cache, response, tasks[t].spec)
       IN  /\ cache' = r.cache
           /\ tasks' = [tasks EXCEPT ![t] =
                           [spec |-> @.spec, hit |-> @.hit,
                            response |-> response, pc |-> "done",
                            kind |-> r.result.kind,
                            records |-> r.result.records]]
    /\ UNCHANGED parserVars
    /\ UNCHANGED <<phase, run_args, all_records, db, pending, offered,
                   price_index, data>>

NextClient ==
    \/ \E spec \in ClientSpecs : FetchAllCall(spec)
    \/ \E t \in 1..Len(tasks) : \E response \in Responses :
           FetchAllResume(t, response)

SpecClient == InitClient /\ [][NextClient]_vars

-----------------------------------------------------------------------------
(* pricing_client.py: the reserved-offering fallback                       *)

\* _RI_OFFERING_PARAMS: the pricing type values the fallback knows.
RI_OFFERING_PARAMS ==
    {RI_1YR_NO_UPFRONT, RI_1YR_ALL_UPFRONT, RI_1YR, RI_3YR_NO_UPFRONT,
     RI_3YR_ALL_UPFRONT, RI_3YR}

\* DescribeReservedDBInstancesOfferings answered with no offering (an API
\* exception or an empty list).
NoOffering ==
    [present |-> FALSE, FixedPrice |-> 0, UsagePrice |-> 0,
     RecurringHourly |-> 0]

\* The first offering of a non-empty answer.  Single-AZ offerings carry an
\* hourly recurring charge, Multi-AZ ones only the legacy usage price.
OfferingFor(spec, pt_val) ==
    [present |-> TRUE,
     FixedPrice |-> (IF pt_val = RI_1YR_ALL_UPFRONT THEN 400000 ELSE 1000000)
                    * Cent,
     UsagePrice |-> IF spec.deployment_option = "Multi-AZ" THEN 7 * Cent
                    ELSE 0,
     RecurringHourly |-> IF spec.deployment_option = "Multi-AZ" THEN 0
                         ELSE 5 * Cent]

\* fetch_ri_offering: found is FALSE where the code returns None.
fetch_ri_offering(spec, pricing_type_value, offering) ==
    LET hourly_rate == IF offering.RecurringHourly > 0
                       THEN offering.RecurringHourly ELSE offering.UsagePrice
        monthly_fee == hourly_rate * 730
    IN  IF pricing_type_value \notin RI_OFFERING_PARAMS \/ ~offering.present
        THEN [found |-> FALSE,
              record |-> CostRecord(spec, pricing_type_value, None, None,
                                    None, None, FALSE)]
        ELSE [found |-> TRUE,
              record |-> CostRecord(spec, pricing_type_value, None,
                                    offering.FixedPrice, monthly_fee, None,
                                    TRUE)]

-----------------------------------------------------------------------------
(* db_store.py: the pricing_records table, keyed as get_pricing reads it   *)

RecordKey(rec) ==
    <<rec.spec.instance_type, rec.spec.deployment_option, rec.pricing_type>>

store_pricing_records(records) ==
    [k \in {RecordKey(records[i]) : i \in 1..Len(records)} |->
        LET rec == records[CHOOSE i \in 1..Len(records) :
                               RecordKey(records[i]) = k]
        IN  [monthly_cost |-> monthly_cost(rec),
             annual_cost |-> rec.annual_cost,
             is_available |-> rec.is_available]]

\* get_unavailable_ri_records, in insertion order.
get_unavailable_ri_records(dbv, records) ==
    LET keys == [i \in 1..Len(records) |-> RecordKey(records[i])]
        want(k) == ~dbv[k].is_available /\ k[3] # ON_DEMAND
    IN  SelectSeq(keys, want)

update_pricing_record(dbv, k, monthly, annual) ==
    [dbv EXCEPT ![k] = [monthly_cost |-> monthly, annual_cost |-> annual,
                        is_available |-> TRUE]]

-----------------------------------------------------------------------------
(* estimator.py: run_v2                                                    *)

\* str.replace("r6i", "r7i") on the instance names the runs use.
replace_r6i(inst) ==
    IF inst = "db.r6i.xlarge" THEN "db.r7i.xlarge"
    ELSE IF inst = "db.r6i.large" THEN "db.r7i.large"
    ELSE inst

spec_r7i(args) == replace_r6i(args.spec_r6i)

sga_r7i(args) == replace_r6i(args.sga_r6i)

\* target_instances: the instance names that are set ("" stands for None).
target_instances(args) ==
    {args.spec_r6i, spec_r7i(args), args.sga_r6i, sga_r7i(args)} \ {""}

\* The orders in which the set target_instances can be iterated.
Orderings(S) ==
    {s \in [1..Cardinality(S) -> S] :
        \A i, j \in 1..Cardinality(S) : i # j => s[i] # s[j]}

all_specs(order) ==
    [j \in 1..(2 * Len(order)) |->
        InstanceSpec(order[(j + 1) \div 2],
                     IF j % 2 = 1 THEN "Single-AZ" ELSE "Multi-AZ")]

RECURSIVE Flatten(_)
Flatten(results) ==
    IF results = <<>> THEN <<>>
    ELSE Head(results) \o Flatten(Tail(results))

\* Variant of sync_record that copies the updated amounts but leaves the
\* record unavailable.
sync_record_keeps_flag(dbv, rec) ==
    IF rec.is_available THEN rec
    ELSE IF RecordKey(rec) \in DOMAIN dbv /\ dbv[RecordKey(rec)].is_available
    THEN [rec EXCEPT !.monthly_fee = dbv[RecordKey(rec)].monthly_cost,
                     !.annual_cost = dbv[RecordKey(rec)].annual_cost]
    ELSE rec

\* _sync_fallback_to_index applied to one record.
sync_record(dbv, rec) ==
    IF rec.is_available THEN rec
    ELSE IF RecordKey(rec) \in DOMAIN dbv /\ dbv[RecordKey(rec)].is_available
    THEN [rec EXCEPT !.is_available = TRUE,
                     !.monthly_fee = dbv[RecordKey(rec)].monthly_cost,
                     !.annual_cost = dbv[RecordKey(rec)].annual_cost]
    ELSE rec

\* price_index built from all_records (a later record of a key wins).
build_price_index(records) ==
    [k \in {RecordKey(records[i]) : i \in 1..Len(records)} |->
        LET last == CHOOSE i \in 1..Len(records) :
                        /\ RecordKey(records[i]) = k
                        /\ \A j \in 1..Len(records) :
                               RecordKey(records[j]) = k => j <= i
        IN  records[last]]

\* What a run is started with: the instance names of the CLI arguments and
\* the parsed document figures the template data is computed from.
RunInputs ==
    {[spec_r6i |-> "db.r6i.xlarge", sga_r6i |-> "",
      db_size_gb |-> 100, growth_percent |-> 15, prov_iops |-> 0,
      prov_tp |-> 0, sent_daily_gb |-> 2, recv_daily_gb |-> 1,
      redo_daily_gb |-> 1],
     [spec_r6i |-> "db.r6i.xlarge", sga_r6i |-> "db.r6i.xlarge",
      db_size_gb |-> 0, growth_percent |-> 15, prov_iops |-> 3100,
      prov_tp |-> 0, sent_daily_gb |-> 0, recv_daily_gb |-> 0,
      redo_daily_gb |-> 0]}

Init ==
    /\ cache = EmptyFn
    /\ tasks = <<>>
    /\ phase = "start"
    /\ run_args \in RunInputs
    /\ all_records = <<>>
    /\ db = EmptyFn
    /\ pending = <<>>
    /\ offered = EmptyFn
    /\ price_index = EmptyFn
    /\ data = EmptyFn
    /\ ParserIdle

\* asyncio.gather starts one fetch_all per spec; each runs to its await.
Gather ==
    /\ phase = "start"
    /\ \E order \in Orderings(target_instances(run_args)) :
           tasks' = [j \in 1..(2 * Len(order)) |->
                        NewTask(cache, all_specs(order)[j])]
    /\ phase' = "fetch"
    /\ UNCHANGED parserVars
    /\ UNCHANGED <<cache, run_args, all_records, db, pending, offered,
                   price_index, data>>

\* gather returns (or raises what a coroutine raised); the records are
\* stored and the fallback collects the unavailable reserved rows.
GatherJoin ==
    /\ phase = "fetch"
    /\ \/ \A t \in 1..Len(tasks) : tasks[t].pc = "done"
       \/ \E t \in 1..Len(tasks) : tasks[t].kind = "raise"
    /\ IF \E t \in 1..Len(tasks) : tasks[t].kind = "raise"
       THEN /\ phase' = "raised"
            /\ UNCHANGED <<all_records, db, pending>>
       ELSE LET records == Flatten([t \in 1..Len(tasks) |->
                                       tasks[t].records])
                stored == store_pricing_records(records)
            IN  /\ all_records' = records
                /\ db' = stored
                /\ pending' = get_unavailable_ri_records(stored, records)
                /\ phase' = "fallback"
    /\ UNCHANGED parserVars
    /\ UNCHANGED <<cache, tasks, run_args, offered, price_index, data>>

\* _apply_ri_fallback, one iteration: the offering lookup of the first
\* pending row returns and the row is updated when a price came back.
ApplyRiFallback ==
    /\ phase = "fallback"
    /\ pending # <<>>
    /\ LET k == Head(pending)
           spec == InstanceSpec(k[1], k[2])
       IN  \E offering \in {NoOffering, OfferingFor(spec, k[3])} :
               LET result == fetch_ri_offering(spec, k[3], offering)
               IN  /\ db' = IF result.found
                               /\ monthly_cost(result.record) # None
                            THEN update_pricing_record(
                                     db, k,
                                     round2(monthly_cost(result.record)),
                                     round2(IF result.record.annual_cost = None
                                            THEN 0
                                            ELSE result.record.annual_cost))
                            ELSE db
                   /\ offered' = IF offering.present
                                 THEN [x \in DOMAIN offered \cup {k} |->
                                          IF x = k THEN offering
                                          ELSE offered[x]]
                                 ELSE offered
    /\ pending' = Tail(pending)
    /\ UNCHANGED parserVars
    /\ UNCHANGED <<cache, tasks, phase, run_args, all_records, price_index,
                   data>>

\* Variant of IndexRecords that does not wait for the fallback to end.
IndexRecordsEarly ==
    /\ phase = "fallback"
    /\ LET synced == [i \in 1..Len(all_records) |->
                         sync_record(db, all_records[i])]
       IN  /\ all_records' = synced
           /\ price_index' = build_price_index(synced)
    /\ phase' = "indexed"
    /\ UNCHANGED parserVars
    /\ UNCHANGED <<cache, tasks, run_args, db, pending, offered, data>>

\* The fallback is over: price_index is built and _sync_fallback_to_index
\* carries the updated rows into the records.
IndexRecords ==
    /\ phase = "fallback"
    /\ pending = <<>>
    /\ LET synced == [i \in 1..Len(all_records) |->
                         sync_record(db, all_records[i])]
       IN  /\ all_records' = synced
           /\ price_index' = build_price_index(synced)
    /\ phase' = "indexed"
    /\ UNCHANGED parserVars
    /\ UNCHANGED <<cache, tasks, run_args, db, pending, offered, data>>

-----------------------------------------------------------------------------
(* estimator.py: storage cost helpers, amounts in cents                  *)

GP3_STORAGE_PER_GB == 8

GP3_IOPS_PER_UNIT == 2

GP3_THROUGHPUT_PER_MBPS == 4

GP3_BASE_IOPS == 3000

GP3_BASE_THROUGHPUT == 125

AURORA_STORAGE_PER_GB == 10

NET_CROSS_AZ_PER_GB == 1

NET_CROSS_REGION_PER_GB == 2

AURORA_ENGINES == {"aurora-postgresql", "aurora-mysql"}

RECURSIVE Pow(_, _)
Pow(b, e) == IF e = 0 THEN 1 ELSE b * Pow(b, e - 1)

\* round(a + n/d) for an integer a, ties to the even neighbour.
RoundSum(a, n, d) ==
    LET base == a + (n \div d)
        r == n % d
    IN  IF 2 * r < d THEN base
        ELSE IF 2 * r > d THEN base + 1
        ELSE IF base % 2 = 0 THEN base ELSE base + 1

\* calc_storage_costs for a size of size_num/size_den GB.
calc_storage_costs(size_num, size_den, provisioned_iops, provisioned_throughput_mbps) ==
    LET storage_num == size_num * GP3_STORAGE_PER_GB
        extra_iops == IF provisioned_iops # 0
                      THEN Max(0, provisioned_iops - GP3_BASE_IOPS) ELSE 0
        iops_cost == extra_iops * GP3_IOPS_PER_UNIT
        extra_tp == IF provisioned_throughput_mbps # 0
                    THEN Max(0, provisioned_throughput_mbps
                                - GP3_BASE_THROUGHPUT)
                    ELSE 0
        throughput_cost == extra_tp * GP3_THROUGHPUT_PER_MBPS
    IN  [storage |-> RoundHalfEven(storage_num, size_den),
         iops |-> iops_cost,
         throughput |-> throughput_cost,
         total |-> RoundSum(iops_cost + throughput_cost, storage_num,
                            size_den)]

calc_aurora_storage_costs(size_num, size_den) ==
    [storage |-> RoundHalfEven(size_num * AURORA_STORAGE_PER_GB, size_den),
     iops |-> 0, throughput |-> 0,
     total |-> RoundHalfEven(size_num * AURORA_STORAGE_PER_GB, size_den)]

-----------------------------------------------------------------------------
(* estimator.py: _build_template_data, the cost placeholders.  A value is  *)
(* the string "N/A" (na) or a ",.2f" formatted amount (v, in cents).       *)

NA == [na |-> TRUE, v |-> 0]

Fmt(cents) == [na |-> FALSE, v |-> cents]

\* data.get(key, "0") parsed back to a number.
GetNum(d, key) == IF key \in DOMAIN d THEN d[key].v ELSE 0

\* data.get(key, "N/A").
GetOrNA(d, key) == IF key \in DOMAIN d THEN d[key] ELSE NA

YearStr(year) == <<"0y", "1y", "2y", "3y">>[year + 1]

\* db_size * (1 + growth_rate) ** year, as a fraction.
size_at(args, year) ==
    [num |-> IF args.db_size_gb # 0
             THEN args.db_size_gb * Pow(100 + args.growth_percent, year)
             ELSE 0,
     den |-> Pow(100, year)]

storage_costs_at(args, year) ==
    IF Engine \in AURORA_ENGINES
    THEN calc_aurora_storage_costs(size_at(args, year).num,
                                   size_at(args, year).den)
    ELSE calc_storage_costs(size_at(args, year).num, size_at(args, year).den,
                            args.prov_iops, args.prov_tp)

fill_storage_year(args, year) ==
    LET costs == storage_costs_at(args, year)
    IN  (("stor_cost_" \o YearStr(year)) :> Fmt(costs.storage))
        @@ ("iops_cost" :> Fmt(costs.iops))
        @@ ("throughput_cost" :> Fmt(costs.throughput))
        @@ (("stor_total_" \o YearStr(year)) :> Fmt(costs.total))
        @@ (("stor_yearly_" \o YearStr(year)) :> Fmt(costs.total * 12))
        @@ (("stor_maz_total_" \o YearStr(year)) :>
               Fmt(IF Engine \in AURORA_ENGINES THEN costs.total
                   ELSE costs.total * 2))

fill_storage_costs(args) ==
    fill_storage_year(args, 3) @@ fill_storage_year(args, 2)
    @@ fill_storage_year(args, 1) @@ fill_storage_year(args, 0)

\* One year (1..3) of the network projection; the yearly amount is
\* num * 12 / den with the fraction reduced by 4.
fill_network_year(args, cross_az_cost, yr) ==
    LET num == cross_az_cost * Pow(100 + args.growth_percent, yr)
        den == Pow(100, yr)
    IN  (("net_cost_cross_az_" \o YearStr(yr)) :>
            Fmt(RoundHalfEven(num, den)))
        @@ (("net_cost_cross_az_yearly_" \o YearStr(yr)) :>
               Fmt(RoundHalfEven(num * 3, den \div 4)))

\* _fill_network_costs: the cost keys.
fill_network_costs(args) ==
    LET client_monthly == (args.sent_daily_gb + args.recv_daily_gb) * 30
        cross_az_cost == client_monthly * NET_CROSS_AZ_PER_GB * 2
        redo_monthly == args.redo_daily_gb * 30
        rr_cross_az_cost == cross_az_cost + redo_monthly * NET_CROSS_AZ_PER_GB
        rr_cross_region_cost ==
            cross_az_cost + redo_monthly * NET_CROSS_REGION_PER_GB
    IN  ("net_cost_cross_az" :> Fmt(cross_az_cost))
        @@ ("net_cost_cross_az_yearly" :> Fmt(cross_az_cost * 12))
        @@ ("net_cost_maz_cross_az" :> Fmt(cross_az_cost))
        @@ ("net_cost_maz_cross_az_yearly" :> Fmt(cross_az_cost * 12))
        @@ ("net_cost_rr_cross_az" :> Fmt(rr_cross_az_cost))
        @@ ("net_cost_rr_cross_az_yearly" :> Fmt(rr_cross_az_cost * 12))
        @@ ("net_cost_rr_cross_region" :> Fmt(rr_cross_region_cost))
        @@ ("net_cost_rr_cross_region_yearly" :>
               Fmt(rr_cross_region_cost * 12))
        @@ ("net_monthly" :> Fmt(cross_az_cost))
        @@ ("net_maz_monthly" :> Fmt(cross_az_cost))
        @@ fill_network_year(args, cross_az_cost, 1)
        @@ fill_network_year(args, cross_az_cost, 2)
        @@ fill_network_year(args, cross_az_cost, 3)

\* Variant of get_monthly that answers 0 where there is no price.
get_monthly_zero(index, inst, deploy, pt) ==
    IF /\ <<inst, deploy, pt>> \in DOMAIN index
       /\ index[<<inst, deploy, pt>>].is_available
       /\ monthly_cost(index[<<inst, deploy, pt>>]) # None
    THEN RoundHalfEven(monthly_cost(index[<<inst, deploy, pt>>]), Cent)
    ELSE 0

\* _get_monthly: round(rec.monthly_cost, 2) in cents, None when the index
\* has no available record with a monthly cost.
get_monthly(index, inst, deploy, pt) ==
    IF /\ <<inst, deploy, pt>> \in DOMAIN index
       /\ index[<<inst, deploy, pt>>].is_available
       /\ monthly_cost(index[<<inst, deploy, pt>>]) # None
    THEN RoundHalfEven(monthly_cost(index[<<inst, deploy, pt>>]), Cent)
    ELSE None

\* _fill_pricing, the three keys of one pricing option of one deployment.
fill_pricing_option(d, index, inst, key_base, deploy, opt_key, pt) ==
    LET monthly == get_monthly(index, inst, deploy, pt)
        stor == IF deploy = "Single-AZ" THEN GetNum(d, "stor_total_0y")
                ELSE GetNum(d, "stor_maz_total_0y")
        net == IF deploy = "Single-AZ" THEN GetNum(d, "net_monthly")
               ELSE GetNum(d, "net_maz_monthly")
        k == IF deploy = "Single-AZ" THEN key_base \o "_" \o opt_key
             ELSE key_base \o "_maz_" \o opt_key
        total_m == monthly + stor + net
    IN  ((k \o "_monthly") :>
            IF monthly # None /\ monthly # 0 THEN Fmt(monthly) ELSE NA)
        @@ ((k \o "_total_monthly") :>
               IF monthly # None THEN Fmt(total_m) ELSE NA)
        @@ ((k \o "_total_yearly") :>
               IF monthly # None THEN Fmt(total_m * 12) ELSE NA)

fill_pricing_family(d, index, inst, key_base) ==
    IF inst = "" THEN EmptyFn
    ELSE fill_pricing_option(d, index, inst, key_base, "Single-AZ", "od",
                             ON_DEMAND)
         @@ fill_pricing_option(d, index, inst, key_base, "Single-AZ",
                                "ri1au", RI_1YR_ALL_UPFRONT)
         @@ fill_pricing_option(d, index, inst, key_base, "Single-AZ",
                                "ri3au", RI_3YR_ALL_UPFRONT)
         @@ fill_pricing_option(d, index, inst, key_base, "Multi-AZ", "od",
                                ON_DEMAND)
         @@ fill_pricing_option(d, index, inst, key_base, "Multi-AZ",
                                "ri1au", RI_1YR_ALL_UPFRONT)
         @@ fill_pricing_option(d, index, inst, key_base, "Multi-AZ",
                                "ri3au", RI_3YR_ALL_UPFRONT)

fill_pricing(d, index, r6i_inst, r7i_inst, prefix) ==
    fill_pricing_family(d, index, r7i_inst, prefix \o "_r7i")
    @@ fill_pricing_family(d, index, r6i_inst, prefix \o "_r6i")

Combos == {"spec_r6i", "spec_r7i", "sga_r6i", "sga_r7i"}

PricingOptions == {"od", "ri1au", "ri3au"}

fill_comparison(d) ==
    [k \in {"comp_" \o c \o "_" \o o : c \in Combos, o \in PricingOptions} |->
        LET co == CHOOSE co \in Combos \X PricingOptions :
                      k = "comp_" \o co[1] \o "_" \o co[2]
        IN  GetOrNA(d, co[1] \o "_" \o co[2] \o "_total_yearly")]

\* _fill_tco: yearly storage cost of year index 0..2.
tco_yearly_stor(args, year) == storage_costs_at(args, year).total * 12

\* _fill_tco: the 3-year network cost over the denominator 100^2.
tco_net_num(d, args, year) ==
    GetNum(d, "net_monthly") * 12 * Pow(100 + args.growth_percent, year)
    * Pow(100, 2 - year)

tco_value(d, args, monthly_key) ==
    IF GetOrNA(d, monthly_key).na THEN NA
    ELSE Fmt(RoundSum(GetNum(d, monthly_key) * 12 * 3
                      + tco_yearly_stor(args, 0) + tco_yearly_stor(args, 1)
                      + tco_yearly_stor(args, 2),
                      tco_net_num(d, args, 0) + tco_net_num(d, args, 1)
                      + tco_net_num(d, args, 2),
                      Pow(100, 2)))

TcoOptions == {<<"od", "od">>, <<"ri1", "ri1au">>, <<"ri3", "ri3au">>}

fill_tco(d, args) ==
    [k \in {"tco_" \o c \o "_" \o o[1] : c \in Combos, o \in TcoOptions} |->
        LET co == CHOOSE co \in Combos \X TcoOptions :
                      k = "tco_" \o co[1] \o "_" \o co[2][1]
        IN  tco_value(d, args, co[1] \o "_" \o co[2][2] \o "_monthly")]

\* _build_template_data, the cost placeholders in the order they are filled.
build_template_data(args, index) ==
    LET d1 == fill_network_costs(args) @@ fill_storage_costs(args)
        d2 == fill_pricing(d1, index, args.spec_r6i, spec_r7i(args), "spec")
              @@ d1
        d3 == fill_pricing(d2, index, args.sga_r6i, sga_r7i(args), "sga")
              @@ d2
        d4 == fill_comparison(d3) @@ d3
    IN  fill_tco(d4, args) @@ d4

BuildTemplateData ==
    /\ phase = "indexed"
    /\ data' = build_template_data(run_args, price_index)
    /\ phase' = "built"
    /\ UNCHANGED parserVars
    /\ UNCHANGED <<cache, tasks, run_args, all_records, db, pending, offered,
                   price_index>>

Next ==
    \/ Gather
    \/ \E t \in 1..Len(tasks) : \E response \in Responses :
           FetchAllResume(t, response)
    \/ GatherJoin
    \/ ApplyRiFallback
    \/ IndexRecords
    \/ BuildTemplateData

Spec == Init /\ [][Next]_vars

-----------------------------------------------------------------------------
\* C1: a cached price record is never removed or replaced, and every later
\* fetch_all for its spec returns that record, still available, also when the
\* API call made for the uncached options fails.
C1_CachedRecordReturned ==
    \A t \in 1..Len(tasks) :
        tasks[t].pc = "done" =>
            \A i \in tasks[t].hit :
                /\ tasks[t].kind = "return"
                /\ tasks[t].records[i] =
                       cache[cache_key(tasks[t].spec, pricing_types[i])]
                /\ tasks[t].records[i].is_available

-----------------------------------------------------------------------------
\* C2: when the lookup of one spec fails (API error or missing data),
\* fetch_all returns unavailable records for it instead of raising, and the
\* sibling lookups of the gather complete with their own results: every
\* finished coroutine returned one record per pricing type, available exactly
\* where its own response priced the type, and the run never sees a raise.
C2_FailedLookupIsolated ==
    /\ phase # "raised"
    /\ \A t \in 1..Len(tasks) :
           tasks[t].pc = "done" =>
               /\ tasks[t].kind = "return"
               /\ Len(tasks[t].records) = Len(pricing_types)
               /\ \A i \in 1..Len(pricing_types) :
                      /\ tasks[t].records[i].spec = tasks[t].spec
                      /\ tasks[t].records[i].pricing_type = pricing_types[i]
                      /\ tasks[t].records[i].is_available
                             <=> (/\ ~tasks[t].response.failed
                                  /\ pricing_types[i]
                                         \in tasks[t].response.terms)
    /\ phase \in {"fallback", "indexed", "built"} =>
           Len(all_records) = Len(pricing_types) * Len(tasks)

\* The gather has returned although one lookup failed, and a sibling lookup
\* delivered available records.
C2_Witness ==
    /\ phase = "fallback"
    /\ \E t, u \in 1..Len(tasks) :
           /\ tasks[t].response.failed
           /\ \A i \in 1..Len(pricing_types) :
                  ~tasks[t].records[i].is_available
           /\ \A i \in 1..Len(pricing_types) :
                  tasks[u].records[i].is_available

\* The annual cost compute_annual_cost derives from an offering: the upfront
\* fee plus the hourly rate (the recurring charge, else the usage price) over
\* 730 hours a month, per year of the term.
OfferingAnnual(pt, offering) ==
    LET hourly == IF offering.RecurringHourly > 0
                  THEN offering.RecurringHourly ELSE offering.UsagePrice
    IN  IF pt \in {RI_1YR_NO_UPFRONT, RI_1YR_ALL_UPFRONT}
        THEN offering.FixedPrice + hourly * 730 * 12
        ELSE (offering.FixedPrice + hourly * 730 * 36) \div 3

NeitherSourceYields(k) ==
    /\ k[3] # ON_DEMAND
    /\ k \notin DOMAIN offered
    /\ \E t \in 1..Len(tasks) :
           /\ tasks[t].spec = InstanceSpec(k[1], k[2])
           /\ tasks[t].response.failed \/ k[3] \notin tasks[t].response.terms

\* The instance a template combination (prefix and family) stands for.
ComboInstance(c) ==
    CASE c = "spec_r6i" -> run_args.spec_r6i
      [] c = "spec_r7i" -> spec_r7i(run_args)
      [] c = "sga_r6i" -> run_args.sga_r6i
      [] OTHER -> sga_r7i(run_args)

\* The template key stems the combination k is reported under.
KeyStems(k) ==
    {c \o (IF k[2] = "Single-AZ" THEN "_" ELSE "_maz_")
       \o (IF k[3] = RI_1YR_ALL_UPFRONT THEN "ri1au" ELSE "ri3au") :
        c \in {c \in Combos : ComboInstance(c) = k[1]}}

\* C4: when neither source yields a price for a reserved combination, its
\* record stays unavailable and every result field derived from it (monthly,
\* total monthly, total yearly, and the TCO of the Single-AZ combination) is
\* "N/A", never a number.
C4_UnpricedIsNA ==
    phase = "built" =>
        \A k \in DOMAIN price_index :
            NeitherSourceYields(k) =>
                /\ ~price_index[k].is_available
                /\ \A i \in 1..Len(all_records) :
                       RecordKey(all_records[i]) = k
                           => ~all_records[i].is_available
                /\ \A stem \in KeyStems(k) :
                       /\ data[stem \o "_monthly"] = NA
                       /\ data[stem \o "_total_monthly"] = NA
                       /\ data[stem \o "_total_yearly"] = NA
                /\ k[2] = "Single-AZ" =>
                       \A c \in Combos :
                           ComboInstance(c) = k[1] =>
                               data["tco_" \o c \o "_"
                                    \o (IF k[3] = RI_1YR_ALL_UPFRONT
                                        THEN "ri1" ELSE "ri3")] = NA

\* The template data is built for a run in which a Single-AZ reserved
\* combination got no price from either source while its on-demand price is
\* known.
C4_Witness ==
    /\ phase = "built"
    /\ \E k \in DOMAIN price_index :
           /\ NeitherSourceYields(k)
           /\ k[2] = "Single-AZ"
           /\ k[1] = run_args.spec_r6i
           /\ KeyStems(k) # {}
           /\ ~data["spec_r6i_od_monthly"].na
           /\ data["spec_r6i_od_total_monthly"].v > 0

-----------------------------------------------------------------------------
(* document_parser.py: _parse_main_metrics_full                            *)
(*                                                                         *)
(* A section is the MAIN-METRICS text already cut into its header line and *)
(* its data lines, each split on whitespace.  Numbers are integers in      *)
(* thousandths, which holds every value the parser rounds to 0, 1 or 3     *)
(* decimals.                                                               *)

\* A numeric token: float(token) is v thousandths.
Num(v) == [num |-> TRUE, v |-> v, s |-> ""]

\* A token float() rejects with ValueError, such as a date or a time.
Str(s) == [num |-> FALSE, v |-> 0, s |-> s]

\* _col returning None: the column is not in the header or the line is short.
NoToken == [num |-> FALSE, v |-> 0, s |-> "None"]

\* col_map.get(h): the 0-based header index of column h, None when absent.
col_map(headers, h) ==
    IF \E i \in 1..Len(headers) : headers[i] = h
    THEN (CHOOSE i \in 1..Len(headers) :
              /\ headers[i] = h
              /\ \A j \in (i + 1)..Len(headers) : headers[j] # h) - 1
    ELSE None

\* The lookup without the correction for the 'end' column.
col_no_offset(cols, header_idx, end_header_idx) ==
    IF header_idx = None
    THEN NoToken
    ELSE IF header_idx < Len(cols) THEN cols[header_idx + 1] ELSE NoToken

\* _col: the token of a data line for a header index, one position further
\* right for the columns after the 'end' column.
col(cols, header_idx, end_header_idx) ==
    IF header_idx = None
    THEN NoToken
    ELSE LET actual == IF end_header_idx # None /\ header_idx > end_header_idx
                       THEN header_idx + 1 ELSE header_idx
         IN  IF actual < Len(cols) THEN cols[actual + 1] ELSE NoToken

\* Columns kept as text, and columns converted with float().
TextColumns == {"snap", "inst"}

FloatColumns == {"os_cpu", "os_cpu_max", "cpu_per_s", "cpu_per_s_max",
                 "read_iops", "write_iops", "read_iops_max",
                 "write_iops_max", "redo_mb_s", "dur_m"}

\* The body of the row loop: the row dict of one data line, and whether a
\* float() raised ValueError (the line is then skipped).
parse_row(cols, headers) ==
    LET end_header_idx == col_map(headers, "end")
        tok(h) == col(cols, col_map(headers, h), end_header_idx)
        present == {h \in TextColumns \cup FloatColumns : tok(h) # NoToken}
    IN  [ok  |-> \A h \in present \cap FloatColumns : tok(h).num,
         row |-> [h \in present |->
                     IF h \in TextColumns THEN tok(h) ELSE tok(h).v]]

\* The row loop: stops at an empty line, skips the lines float() rejects.
RECURSIVE parse_rows(_, _)
parse_rows(lines, headers) ==
    IF lines = <<>> \/ Head(lines) = <<>>
    THEN <<>>
    ELSE LET r == parse_row(Head(lines), headers)
         IN  (IF r.ok THEN <<r.row>> ELSE <<>>)
                 \o parse_rows(Tail(lines), headers)

\* row.get("snap", "0")
snap_of(row) == IF "snap" \in DOMAIN row THEN row["snap"] ELSE Num(0)

\* The keys of snap_groups, in insertion order.
RECURSIVE snap_keys(_)
snap_keys(rws) ==
    IF rws = <<>>
    THEN <<>>
    ELSE LET k == snap_of(Head(rws))
         IN  <<k>> \o SelectSeq(snap_keys(Tail(rws)), LAMBDA x : x # k)

\* snap_groups[snap_key]
snap_rows(rws, snap_key) == SelectSeq(rws, LAMBDA r : snap_of(r) = snap_key)

\* [r[key] for r in snap_rows if key in r]
RECURSIVE vals(_, _)
vals(rs, key) ==
    IF rs = <<>>
    THEN <<>>
    ELSE (IF key \in DOMAIN Head(rs) THEN <<Head(rs)[key]>> ELSE <<>>)
             \o vals(Tail(rs), key)

\* [r.get(k1, 0) + r.get(k2, 0) for r in snap_rows]
RECURSIVE pair_vals(_, _, _)
pair_vals(rs, k1, k2) ==
    IF rs = <<>>
    THEN <<>>
    ELSE <<(IF k1 \in DOMAIN Head(rs) THEN Head(rs)[k1] ELSE 0)
             + (IF k2 \in DOMAIN Head(rs) THEN Head(rs)[k2] ELSE 0)>>
             \o pair_vals(Tail(rs), k1, k2)

\* sum(xs)
RECURSIVE SeqSum(_)
SeqSum(xs) == IF xs = <<>> THEN 0 ELSE Head(xs) + SeqSum(Tail(xs))

\* max(xs) of a non-empty list
RECURSIVE SeqMax(_)
SeqMax(xs) ==
    IF Len(xs) = 1 THEN Head(xs) ELSE Max(Head(xs), SeqMax(Tail(xs)))

\* A quotient a / b that the program keeps as a float: the pair <<a, b>>.
\* The sum of a list of quotients, as one quotient.
RECURSIVE QuotSum(_)
QuotSum(qs) ==
    IF qs = <<>>
    THEN <<0, 1>>
    ELSE LET q == Head(qs)
             r == QuotSum(Tail(qs))
         IN  <<q[1] * r[2] + r[1] * q[2], q[2] * r[2]>>

\* The per-snapshot lists.  Each takes the snapshots in order and leaves
\* out a snapshot whose rows carry no value of the column.

\* The members' CPU % added up instead of averaged.
RECURSIVE snap_os_cpu_summed(_, _)
snap_os_cpu_summed(rws, keys) ==
    IF keys = <<>>
    THEN <<>>
    ELSE LET cpu_vals == vals(snap_rows(rws, Head(keys)), "os_cpu")
         IN  (IF cpu_vals # <<>> THEN <<<<SeqSum(cpu_vals), 1>>>> ELSE <<>>)
                 \o snap_os_cpu_summed(rws, Tail(keys))

\* snap_os_cpu: per snapshot, the members' mean.
RECURSIVE snap_os_cpu(_, _)
snap_os_cpu(rws, keys) ==
    IF keys = <<>>
    THEN <<>>
    ELSE LET cpu_vals == vals(snap_rows(rws, Head(keys)), "os_cpu")
         IN  (IF cpu_vals # <<>>
              THEN <<<<SeqSum(cpu_vals), Len(cpu_vals)>>>> ELSE <<>>)
                 \o snap_os_cpu(rws, Tail(keys))

\* The members' peak CPU % added up instead of maximised.
RECURSIVE snap_os_cpu_max_summed(_, _)
snap_os_cpu_max_summed(rws, keys) ==
    IF keys = <<>>
    THEN <<>>
    ELSE LET cpu_max_vals == vals(snap_rows(rws, Head(keys)), "os_cpu_max")
         IN  (IF cpu_max_vals # <<>> THEN <<SeqSum(cpu_max_vals)>> ELSE <<>>)
                 \o snap_os_cpu_max_summed(rws, Tail(keys))

\* snap_os_cpu_max: per snapshot, the members' maximum.
RECURSIVE snap_os_cpu_max(_, _)
snap_os_cpu_max(rws, keys) ==
    IF keys = <<>>
    THEN <<>>
    ELSE LET cpu_max_vals == vals(snap_rows(rws, Head(keys)), "os_cpu_max")
         IN  (IF cpu_max_vals # <<>> THEN <<SeqMax(cpu_max_vals)>> ELSE <<>>)
                 \o snap_os_cpu_max(rws, Tail(keys))

\* snap_cpu_per_s, snap_cpu_per_s_max, snap_redo: per snapshot, the
\* members' sum of one column.
RECURSIVE snap_sum(_, _, _)
snap_sum(rws, keys, key) ==
    IF keys = <<>>
    THEN <<>>
    ELSE LET xs == vals(snap_rows(rws, Head(keys)), key)
         IN  (IF xs # <<>> THEN <<SeqSum(xs)>> ELSE <<>>)
                 \o snap_sum(rws, Tail(keys), key)

\* snap_iops, snap_iops_max: per snapshot, the members' sum of read + write.
RECURSIVE snap_iops(_, _, _, _)
snap_iops(rws, keys, k1, k2) ==
    IF keys = <<>>
    THEN <<>>
    ELSE <<SeqSum(pair_vals(snap_rows(rws, Head(keys)), k1, k2))>>
             \o snap_iops(rws, Tail(keys), k1, k2)

\* snap_dur: per snapshot, the first dur_m.
RECURSIVE snap_dur(_, _)
snap_dur(rws, keys) ==
    IF keys = <<>>
    THEN <<>>
    ELSE LET dur_vals == vals(snap_rows(rws, Head(keys)), "dur_m")
         IN  (IF dur_vals # <<>> THEN <<Head(dur_vals)>> ELSE <<>>)
                 \o snap_dur(rws, Tail(keys))

\* round(q, 1), round(q, 3) and round(q, 0) of a quotient of thousandths,
\* in thousandths.
round1(q) == RoundHalfEven(q[1], q[2] * 100) * 100

round3(q) == RoundHalfEven(q[1], q[2])

round0(q) == RoundHalfEven(q[1], q[2] * 1000) * 1000

\* Seconds per day.  redo_bytes_per_day is kept in thousandths of a MiB,
\* the factor 1024 * 1024 being the unit.
SECONDS_PER_DAY == 86400

\* The redo rate stored as it is read, in MB/s.
redo_native(redo) == SeqSum(redo) \div Len(redo)

\* avg_redo_mb_s * 86400 * 1024 * 1024: the mean of the per-snapshot redo
\* rates as a volume per day.  A rate is held in thousandths of a MB/s and
\* a volume in thousandths of a MiB, so the factor 1024 * 1024 is the step
\* from the one unit to the other.
redo_bytes_per_day(redo) == (SeqSum(redo) * SECONDS_PER_DAY) \div Len(redo)

\* The entries of the result dict computed from the per-snapshot lists; a
\* key is set only when its list is not empty.
main_metrics_result(rws) ==
    LET keys == snap_keys(rws)
        os_cpu == snap_os_cpu(rws, keys)
        os_cpu_max == snap_os_cpu_max(rws, keys)
        cpu_per_s == snap_sum(rws, keys, "cpu_per_s")
        cpu_per_s_max == snap_sum(rws, keys, "cpu_per_s_max")
        iops == snap_iops(rws, keys, "read_iops", "write_iops")
        iops_max == snap_iops(rws, keys, "read_iops_max", "write_iops_max")
        redo == snap_sum(rws, keys, "redo_mb_s")
        dur == snap_dur(rws, keys)
        os_cpu_total == QuotSum(os_cpu)
        entries ==
            (IF os_cpu # <<>> THEN {"avg_cpu_percent"} ELSE {})
            \cup (IF os_cpu_max # <<>> THEN {"peak_cpu_percent"} ELSE {})
            \cup (IF cpu_per_s # <<>> THEN {"avg_cpu_per_s"} ELSE {})
            \cup (IF cpu_per_s_max # <<>> THEN {"peak_cpu_per_s"} ELSE {})
            \cup (IF iops # <<>> THEN {"avg_iops"} ELSE {})
            \cup (IF iops_max # <<>> THEN {"peak_iops"} ELSE {})
            \cup (IF redo # <<>> THEN {"redo_bytes_per_day"} ELSE {})
            \cup (IF dur # <<>> THEN {"dur_m"} ELSE {})
    IN  [k \in entries |->
            CASE k = "avg_cpu_percent" ->
                     round1(<<os_cpu_total[1], os_cpu_total[2] * Len(os_cpu)>>)
              [] k = "peak_cpu_percent" -> round1(<<SeqMax(os_cpu_max), 1>>)
              [] k = "avg_cpu_per_s" ->
                     round3(<<SeqSum(cpu_per_s), Len(cpu_per_s)>>)
              [] k = "peak_cpu_per_s" -> round3(<<SeqMax(cpu_per_s_max), 1>>)
              [] k = "avg_iops" -> round0(<<SeqSum(iops), Len(iops)>>)
              [] k = "peak_iops" -> round0(<<SeqMax(iops_max), 1>>)
              [] k = "redo_bytes_per_day" -> redo_bytes_per_day(redo)
              [] k = "dur_m" -> SeqSum(dur) \div Len(dur)]

\* _parse_main_metrics_full: {} when the section, its header line or every
\* data row is missing.
parse_main_metrics_full(sec) ==
    IF sec = EmptyFn \/ sec.headers = <<>>
    THEN EmptyFn
    ELSE LET rws == parse_rows(sec.lines, sec.headers)
         IN  IF rws = <<>> THEN EmptyFn ELSE main_metrics_result(rws)

-----------------------------------------------------------------------------
(* _parse_main_metrics_full applied to MAIN-METRICS sections               *)

\* Largest number of data lines of a section.
MaxRows == 3

\* Header lines: the 'end' column in its usual place, after two metric
\* columns, and absent.
MainHeaders ==
    {<<"snap", "dur_m", "end", "inst", "os_cpu", "os_cpu_max", "cpu_per_s",
       "cpu_per_s_max", "read_iops", "write_iops", "read_iops_max",
       "write_iops_max", "redo_mb_s">>,
     <<"snap", "dur_m", "inst", "os_cpu", "os_cpu_max", "end", "cpu_per_s",
       "cpu_per_s_max", "read_iops", "write_iops", "read_iops_max",
       "write_iops_max", "redo_mb_s">>,
     <<"snap", "dur_m", "inst", "os_cpu", "os_cpu_max", "cpu_per_s",
       "cpu_per_s_max", "read_iops", "write_iops", "read_iops_max",
       "write_iops_max", "redo_mb_s">>}

\* What one member reports in one snapshot, in thousandths.
Measurements ==
    {[os_cpu |-> 40000, os_cpu_max |-> 70000, cpu_per_s |-> 1500,
      cpu_per_s_max |-> 2500, read_iops |-> 600000, write_iops |-> 400000,
      read_iops_max |-> 900000, write_iops_max |-> 600000,
      redo_mb_s |-> 1000, dur_m |-> 60000],
     [os_cpu |-> 60000, os_cpu_max |-> 90000, cpu_per_s |-> 2000,
      cpu_per_s_max |-> 3000, read_iops |-> 900000, write_iops |-> 600000,
      read_iops_max |-> 1200000, write_iops_max |-> 800000,
      redo_mb_s |-> 2000, dur_m |-> 60000],
     [os_cpu |-> 45120, os_cpu_max |-> 95480, cpu_per_s |-> 1234,
      cpu_per_s_max |-> 4004, read_iops |-> 1200, write_iops |-> 700,
      read_iops_max |-> 2600, write_iops_max |-> 1300,
      redo_mb_s |-> 250, dur_m |-> 60000]}

\* The tokens of one data line under a header: the 'end' column prints a
\* date and a time, two tokens.
RECURSIVE DataLine(_, _, _, _)
DataLine(headers, snap, inst, m) ==
    IF headers = <<>>
    THEN <<>>
    ELSE LET h == Head(headers)
         IN  (CASE h = "end" -> <<Str("26/01/15"), Str("09:00")>>
                [] h = "snap" -> <<Num(snap)>>
                [] h = "inst" -> <<Num(inst)>>
                [] OTHER -> <<Num(m[h])>>)
                 \o DataLine(Tail(headers), snap, inst, m)

\* How the last data line may be damaged: cut short after four tokens, or
\* its last token not a number.
Defects == {"none", "short", "text"}

Damage(line, defect) ==
    CASE defect = "short" -> SubSeq(line, 1, 4)
      [] defect = "text" -> [line EXCEPT ![Len(line)] = Str("N/A")]
      [] OTHER -> line

\* The snapshots of a dump: for each snapshot, its number of members.
Layouts ==
    {layout \in UNION {[1..n -> 1..MaxRows] : n \in 1..MaxRows} :
        SeqSum(layout) <= MaxRows}

\* The (snapshot, member) pairs of a layout, snapshot by snapshot.
RECURSIVE LayoutPairs(_, _)
LayoutPairs(layout, snap) ==
    IF snap > Len(layout)
    THEN <<>>
    ELSE [i \in 1..layout[snap] |-> <<snap, i>>]
             \o LayoutPairs(layout, snap + 1)

\* The sections with a given header and layout, one per choice of what
\* each member reports.
SectionsOf(headers, defect, layout) ==
    LET pairs == LayoutPairs(layout, 1)
    IN  {[headers |-> headers,
          lines |-> [i \in 1..Len(pairs) |->
                        LET line == DataLine(headers, pairs[i][1],
                                             pairs[i][2], ms[i])
                        IN  IF i = Len(pairs)
                            THEN Damage(line, defect) ELSE line]] :
            ms \in [1..Len(pairs) -> Measurements]}

\* The usual header, with 'end' third.
UsualHeader ==
    CHOOSE headers \in MainHeaders : col_map(headers, "end") = 2

\* Every header with undamaged lines, the usual header with each defect.
HeaderDefects ==
    {<<headers, "none">> : headers \in MainHeaders}
    \cup {<<UsualHeader, defect>> : defect \in Defects}

\* The sections the parser is applied to; EmptyFn is a dump without the
\* section, the empty header a section without a header line.
MainSections ==
    {EmptyFn, [headers |-> <<>>, lines |-> <<>>]}
    \cup UNION {SectionsOf(hd[1], hd[2], layout) :
                    hd \in HeaderDefects, layout \in Layouts}

\* The pricing side at rest while only the parser runs.
PricingIdle ==
    /\ cache = EmptyFn
    /\ tasks = <<>>
    /\ phase = "idle"
    /\ run_args = EmptyFn
    /\ all_records = <<>>
    /\ db = EmptyFn
    /\ pending = <<>>
    /\ offered = EmptyFn
    /\ price_index = EmptyFn
    /\ data = EmptyFn

InitMetrics ==
    /\ PricingIdle
    /\ section \in MainSections
    /\ rows = <<>>
    /\ main_metrics = EmptyFn
    /\ fs = EmptyFn
    /\ pc = "main_metrics"
    /\ out_parsed = <<>>
    /\ merged = EmptyFn
    /\ doc_info = EmptyFn

\* _parse_main_metrics_full(content) runs from the section to its return.
ParseMainMetricsFull ==
    /\ pc = "main_metrics"
    /\ rows' = IF section = EmptyFn \/ section.headers = <<>>
               THEN <<>>
               ELSE parse_rows(section.lines, section.headers)
    /\ main_metrics' = parse_main_metrics_full(section)
    /\ pc' = "returned"
    /\ UNCHANGED <<section, fs, out_parsed, merged, doc_info>>
    /\ UNCHANGED pricingVars

NextMetrics == ParseMainMetricsFull

SpecMetrics == InitMetrics /\ [][NextMetrics]_vars

-----------------------------------------------------------------------------
(* Claims about _parse_main_metrics_full                                   *)

\* The position in the header of the 'end' column, 0 when there is none.
EndPosition(headers) ==
    IF \E j \in 1..Len(headers) : headers[j] = "end"
    THEN CHOOSE j \in 1..Len(headers) : headers[j] = "end"
    ELSE 0

\* A data line float() accepts: all its tokens are numbers, apart from the
\* date and the time under 'end'.
GoodLine(line, headers) ==
    \A p \in 1..Len(line) :
        line[p].num \/ p \in {EndPosition(headers), EndPosition(headers) + 1}

\* C8: in a section whose header has the 'end' column, every good data
\* line gives a row, and the value a row holds for a column is the line's
\* token one place right of the column's header position when the column
\* comes after 'end', and the token at the header position itself when it
\* comes before 'end'.
C8_ColumnOffset ==
    (pc = "returned" /\ section # EmptyFn /\ EndPosition(section.headers) > 0)
    => LET headers == section.headers
           e == EndPosition(headers)
           good == {i \in 1..Len(section.lines) :
                       GoodLine(section.lines[i], headers)}
       IN  /\ Len(rows) = Cardinality(good)
           /\ \A i \in 1..Len(rows) : \A j \in 1..Len(headers) :
                  LET h == headers[j]
                      line == section.lines[i]
                      at == IF j > e THEN j + 1 ELSE j
                  IN  (j # e /\ at <= Len(line))
                      => /\ h \in DOMAIN rows[i]
                         /\ rows[i][h] = IF h \in TextColumns
                                         THEN line[at] ELSE line[at].v

\* C8 witness: a parsed section with os_cpu before 'end' and cpu_per_s
\* after it, both read from the right tokens of a two-line dump.
C8_Witness ==
    /\ pc = "returned"
    /\ section # EmptyFn
    /\ EndPosition(section.headers) = 6
    /\ Len(rows) = 2
    /\ rows[1]["os_cpu"] = 40000
    /\ rows[1]["cpu_per_s"] = 1500
    /\ "redo_mb_s" \in DOMAIN rows[2]
    /\ rows[2]["redo_mb_s"] = 2000

\* The sum and the product of the values of a function on a finite set.
RECURSIVE FnSum(_)
FnSum(f) ==
    IF DOMAIN f = {}
    THEN 0
    ELSE LET x == CHOOSE x \in DOMAIN f : TRUE
         IN  f[x] + FnSum([y \in DOMAIN f \ {x} |-> f[y]])

RECURSIVE FnProd(_)
FnProd(f) ==
    IF DOMAIN f = {}
    THEN 1
    ELSE LET x == CHOOSE x \in DOMAIN f : TRUE
         IN  f[x] * FnProd([y \in DOMAIN f \ {x} |-> f[y]])

SetMax(S) == CHOOSE x \in S : \A y \in S : y <= x

\* The snapshots of the parsed rows, the members of a snapshot that report
\* a column, and the snapshots in which some member reports it.
RowSnaps == {rows[i]["snap"] : i \in 1..Len(rows)}

Members(snap, key) ==
    {i \in 1..Len(rows) : rows[i]["snap"] = snap /\ key \in DOMAIN rows[i]}

SnapsWith(key) == {snap \in RowSnaps : Members(snap, key) # {}}

MemberSum(snap, key) == FnSum([i \in Members(snap, key) |-> rows[i][key]])

MemberMax(snap, key) == SetMax({rows[i][key] : i \in Members(snap, key)})

\* The read + write IOPS of a snapshot, a member without a value counting 0.
MemberIops(snap, k1, k2) == MemberSum(snap, k1) + MemberSum(snap, k2)

\* The reported metric, when set.
Reported(key) == main_metrics[key]

\* C9: within a snapshot CPU % is the mean over the members while
\* CPU-seconds/s and read+write IOPS are sums over the members; the
\* reported averages are the means over the snapshots of these values
\* (rounded to 1, 3 and 0 decimals).
C9_MeanAndSum ==
    (pc = "returned" /\ rows # <<>>)
    => /\ LET S == SnapsWith("os_cpu")
              n == [snap \in S |-> Cardinality(Members(snap, "os_cpu"))]
              D == FnProd(n)
              N == FnSum([snap \in S |->
                             MemberSum(snap, "os_cpu") * (D \div n[snap])])
          IN  IF S = {}
              THEN "avg_cpu_percent" \notin DOMAIN main_metrics
              ELSE Reported("avg_cpu_percent")
                       = RoundHalfEven(N, D * Cardinality(S) * 100) * 100
       /\ LET S == SnapsWith("cpu_per_s")
          IN  IF S = {}
              THEN "avg_cpu_per_s" \notin DOMAIN main_metrics
              ELSE Reported("avg_cpu_per_s")
                       = RoundHalfEven(
                             FnSum([snap \in S |->
                                       MemberSum(snap, "cpu_per_s")]),
                             Cardinality(S))
       /\ Reported("avg_iops")
              = RoundHalfEven(
                    FnSum([snap \in RowSnaps |->
                              MemberIops(snap, "read_iops", "write_iops")]),
                    Cardinality(RowSnaps) * 1000) * 1000

\* C9 witness: one snapshot of two members at 40 % and 60 % with 1000 and
\* 1500 IOPS is reported as 50 % and 2500 IOPS.
C9_Witness ==
    /\ pc = "returned"
    /\ Len(rows) = 2
    /\ Cardinality(RowSnaps) = 1
    /\ "write_iops" \in DOMAIN rows[2]
    /\ {rows[1]["os_cpu"], rows[2]["os_cpu"]} = {40000, 60000}
    /\ {rows[1]["read_iops"] + rows[1]["write_iops"],
        rows[2]["read_iops"] + rows[2]["write_iops"]} = {1000000, 1500000}
    /\ Reported("avg_cpu_percent") = 50000
    /\ Reported("avg_iops") = 2500000
    /\ Reported("avg_cpu_per_s") = 3500

\* C10 as stated: within a snapshot both the peak CPU % and the peak
\* CPU-seconds/s are the maximum over the members, and the reported peak is
\* the maximum over the snapshots.
C10_PeaksAreMaxima ==
    (pc = "returned" /\ rows # <<>>)
    => /\ LET S == SnapsWith("os_cpu_max")
          IN  S # {} =>
                  Reported("peak_cpu_percent")
                      = RoundHalfEven(
                            SetMax({MemberMax(snap, "os_cpu_max") :
                                       snap \in S}), 100) * 100
       /\ LET S == SnapsWith("cpu_per_s_max")
          IN  S # {} =>
                  Reported("peak_cpu_per_s")
                      = SetMax({MemberMax(snap, "cpu_per_s_max") : snap \in S})

\* C10 amended: within a snapshot the peak CPU % is the maximum over the
\* members, whereas the peak CPU-seconds/s and the peak read+write IOPS
\* are the sums of the members' peaks; each reported peak is the maximum
\* over the snapshots.
C10_PeakPercentMaxOthersSum ==
    (pc = "returned" /\ rows # <<>>)
    => /\ LET S == SnapsWith("os_cpu_max")
          IN  IF S = {}
              THEN "peak_cpu_percent" \notin DOMAIN main_metrics
              ELSE Reported("peak_cpu_percent")
                       = RoundHalfEven(
                             SetMax({MemberMax(snap, "os_cpu_max") :
                                        snap \in S}), 100) * 100
       /\ LET S == SnapsWith("cpu_per_s_max")
          IN  IF S = {}
              THEN "peak_cpu_per_s" \notin DOMAIN main_metrics
              ELSE Reported("peak_cpu_per_s")
                       = SetMax({MemberSum(snap, "cpu_per_s_max") :
                                    snap \in S})
       /\ Reported("peak_iops")
              = RoundHalfEven(
                    SetMax({MemberIops(snap, "read_iops_max",
                                       "write_iops_max") :
                               snap \in RowSnaps}), 1000) * 1000

\* C10 witness: a snapshot of two members peaking at 70 % / 90 % and at
\* 2.5 / 3.0 CPU-seconds/s, and a snapshot of one member peaking at 95.48 %
\* and 4.004: reported are 95.5 % and 5.5 CPU-seconds/s.
C10_Witness ==
    /\ pc = "returned"
    /\ Len(rows) = 3
    /\ Cardinality(RowSnaps) = 2
    /\ "cpu_per_s_max" \in DOMAIN rows[3]
    /\ {rows[1]["os_cpu_max"], rows[2]["os_cpu_max"]} = {70000, 90000}
    /\ {rows[1]["cpu_per_s_max"], rows[2]["cpu_per_s_max"]} = {2500, 3000}
    /\ rows[1]["snap"] = rows[2]["snap"]
    /\ rows[3]["cpu_per_s_max"] = 4004
    /\ Reported("peak_cpu_percent") = 95500
    /\ Reported("peak_cpu_per_s") = 5500

-----------------------------------------------------------------------------
(* document_parser.py: DocumentParser.parse                                *)
(*                                                                         *)
(* A dump file is described by whether it can be read, the DB_NAME of its  *)
(* OS-INFORMATION section ("" when the section is missing) and whether it  *)
(* holds the MAIN-METRICS, MEMORY, SGA-ADVICE and SYSSTAT sections.  Text  *)
(* fields hold "" for None: the parser tests them for truth only.  Byte    *)
(* volumes per day are in thousandths of a MiB.                            *)

\* Keys whose values are text.
TextKeys == {"db_name", "target_engine", "recommended_instance_by_size",
             "recommended_instance_by_sga"}

\* The MAIN-METRICS lines of a dump that has the section: one snapshot of a
\* two-member cluster.
DumpMembers ==
    <<CHOOSE m \in Measurements : m.os_cpu = 40000,
      CHOOSE m \in Measurements : m.os_cpu = 60000>>

DumpSection ==
    [headers |-> UsualHeader,
     lines |-> <<DataLine(UsualHeader, 1, 1, DumpMembers[1]),
                 DataLine(UsualHeader, 1, 2, DumpMembers[2])>>]

\* _parse_os_information: DB_NAME, NUM_CPU_CORES (8), SGA_TARGET (16 GB)
\* and TOTAL_DB_SIZE_GB (800 GB).
parse_os_information(content) ==
    IF content.db_name = ""
    THEN EmptyFn
    ELSE [db_name |-> content.db_name, cpu_cores |-> 8,
          current_sga_gb |-> 16000, db_size_gb |-> 800000]

\* _parse_memory_section: average and peak of the per-snapshot totals.
parse_memory_section(content) ==
    IF content.sections
    THEN [avg_memory_gb |-> 20000, peak_memory_gb |-> 24000]
    ELSE EmptyFn

\* cols[idx] of a data line: NoToken where Python raises IndexError.
sga_token(cols, idx) == IF idx < Len(cols) THEN cols[idx + 1] ELSE NoToken

\* The row loop body without the test of the member.
sga_row_all_members(cols, headers, acc) ==
    LET sga_size == sga_token(cols, col_map(headers, "SGA_SIZE"))
        sga_factor == sga_token(cols, col_map(headers, "SGA_SIZE_FACTOR"))
        db_time_factor_idx == col_map(headers, "ESTD_DB_TIME_FACTOR")
        db_time_factor == sga_token(cols, db_time_factor_idx)
        current == IF sga_factor.v - 1000 < 10 /\ 1000 - sga_factor.v < 10
                   THEN sga_size.v ELSE acc.current_sga
    IN  IF ~sga_size.num \/ ~sga_factor.num
        THEN acc
        ELSE IF db_time_factor_idx = None \/ Len(cols) <= db_time_factor_idx
                \/ ~db_time_factor.num \/ db_time_factor.v > 900
        THEN [acc EXCEPT !.current_sga = current]
        ELSE [current_sga |-> current,
              recommended_sga |->
                  IF acc.recommended_sga = None
                     \/ sga_size.v < acc.recommended_sga
                  THEN sga_size.v ELSE acc.recommended_sga]

\* _parse_sga_advice, the body of the row loop: current_sga and
\* recommended_sga after one data line.  A line of another member, or one on
\* which int() or float() raises, is left by continue; a ValueError of the
\* DB time factor comes after current_sga is assigned.
sga_row(cols, headers, acc) ==
    LET inst_idx == col_map(headers, "INST_ID")
        inst == sga_token(cols, inst_idx)
        sga_size == sga_token(cols, col_map(headers, "SGA_SIZE"))
        sga_factor == sga_token(cols, col_map(headers, "SGA_SIZE_FACTOR"))
        db_time_factor_idx == col_map(headers, "ESTD_DB_TIME_FACTOR")
        db_time_factor == sga_token(cols, db_time_factor_idx)
        current == IF sga_factor.v - 1000 < 10 /\ 1000 - sga_factor.v < 10
                   THEN sga_size.v ELSE acc.current_sga
    IN  IF inst_idx # None /\ (~inst.num \/ inst.v # 1)
        THEN acc
        ELSE IF ~sga_size.num \/ ~sga_factor.num
        THEN acc
        ELSE IF db_time_factor_idx = None \/ Len(cols) <= db_time_factor_idx
                \/ ~db_time_factor.num \/ db_time_factor.v > 900
        THEN [acc EXCEPT !.current_sga = current]
        ELSE [current_sga |-> current,
              recommended_sga |->
                  IF acc.recommended_sga = None
                     \/ sga_size.v < acc.recommended_sga
                  THEN sga_size.v ELSE acc.recommended_sga]

\* The row loop: stops at an empty line.
RECURSIVE sga_rows(_, _, _)
sga_rows(lines, headers, acc) ==
    IF lines = <<>> \/ Head(lines) = <<>>
    THEN acc
    ELSE sga_rows(Tail(lines), headers, sga_row(Head(lines), headers, acc))

\* _parse_sga_advice on the SGA-ADVICE section of a dump (EmptyFn: no
\* section; headers <<>>: no header line): sizes in thousandths.
sga_advice_result(sec) ==
    IF sec = EmptyFn \/ sec.headers = <<>>
       \/ col_map(sec.headers, "SGA_SIZE") = None
       \/ col_map(sec.headers, "SGA_SIZE_FACTOR") = None
    THEN EmptyFn
    ELSE LET acc == sga_rows(sec.lines, sec.headers,
                             [current_sga |-> None, recommended_sga |-> None])
         IN  (IF acc.current_sga # None
              THEN "current_sga_gb" :> acc.current_sga ELSE EmptyFn)
             @@ (IF acc.recommended_sga # None
                 THEN "recommended_sga_gb" :> acc.recommended_sga
                 ELSE EmptyFn)

\* The header line of the SGA-ADVICE section.
SgaHeader ==
    <<"INST_ID", "SGA_SIZE", "SGA_SIZE_FACTOR", "ESTD_DB_TIME",
      "ESTD_DB_TIME_FACTOR", "ESTD_PHYSICAL_READS">>

\* The tokens of one data line under a header.
RECURSIVE SgaLine(_, _)
SgaLine(headers, r) ==
    IF headers = <<>>
    THEN <<>>
    ELSE LET h == Head(headers)
         IN  <<CASE h = "INST_ID" -> r.inst
                 [] h = "SGA_SIZE" -> r.size
                 [] h = "SGA_SIZE_FACTOR" -> r.factor
                 [] h = "ESTD_DB_TIME_FACTOR" -> r.db_time_factor
                 [] OTHER -> Num(1000)>>
                 \o SgaLine(Tail(headers), r)

\* The SGA-ADVICE section of a dump file: 15.875 at factor 1.00, 24 the
\* smallest size with a DB time factor of at most 0.90.
DumpSgaAdvice ==
    [headers |-> SgaHeader,
     lines |-> <<SgaLine(SgaHeader,
                         [inst |-> Num(1), size |-> Num(15875),
                          factor |-> Num(1000),
                          db_time_factor |-> Num(1000)]),
                 SgaLine(SgaHeader,
                         [inst |-> Num(1), size |-> Num(24000),
                          factor |-> Num(1500),
                          db_time_factor |-> Num(900)]),
                 SgaLine(SgaHeader,
                         [inst |-> Num(2), size |-> Num(12000),
                          factor |-> Num(1000),
                          db_time_factor |-> Num(800)])>>]

\* _parse_sga_advice: the size at factor 1.00 and the smallest size whose
\* DB time factor is at most 0.90.
parse_sga_advice(content) ==
    IF content.sections
    THEN sga_advice_result(DumpSgaAdvice)
    ELSE EmptyFn

\* Minutes per day, and the sampling window assumed when none is found.
MINUTES_PER_DAY == 1440

DEFAULT_DUR_M == 60

\* _parse_sysstat_section, the body of the row loop: incoming_vals and
\* outgoing_vals after one data line.  A line too short for the columns is
\* left by continue; when float() raises on the outgoing figure the
\* incoming one is already appended.
sysstat_row(cols, incoming_idx, outgoing_idx, acc) ==
    LET reach == Max(IF incoming_idx = None THEN 0 ELSE incoming_idx,
                     IF outgoing_idx = None THEN 0 ELSE outgoing_idx)
        incoming == IF incoming_idx = None
                    THEN NoToken ELSE sga_token(cols, incoming_idx)
        outgoing == IF outgoing_idx = None
                    THEN NoToken ELSE sga_token(cols, outgoing_idx)
        appended == IF incoming_idx # None
                    THEN [acc EXCEPT !.incoming_vals = Append(@, incoming.v)]
                    ELSE acc
    IN  IF Len(cols) <= reach
        THEN acc
        ELSE IF incoming_idx # None /\ ~incoming.num
        THEN acc
        ELSE IF outgoing_idx # None /\ outgoing.num
        THEN [appended EXCEPT !.outgoing_vals = Append(@, outgoing.v)]
        ELSE appended

\* The row loop: stops at an empty line.
RECURSIVE sysstat_rows(_, _, _, _)
sysstat_rows(lines, incoming_idx, outgoing_idx, acc) ==
    IF lines = <<>> \/ Head(lines) = <<>>
    THEN acc
    ELSE sysstat_rows(Tail(lines), incoming_idx, outgoing_idx,
                      sysstat_row(Head(lines), incoming_idx, outgoing_idx,
                                  acc))

\* The result dict: the mean of each list that is not empty, and the
\* sampling window, always the default one.
sysstat_dict(acc) ==
    (IF acc.incoming_vals # <<>>
     THEN "network_incoming_mb" :>
              SeqSum(acc.incoming_vals) \div Len(acc.incoming_vals)
     ELSE EmptyFn)
    @@ (IF acc.outgoing_vals # <<>>
        THEN "network_outgoing_mb" :>
                 SeqSum(acc.outgoing_vals) \div Len(acc.outgoing_vals)
        ELSE EmptyFn)
    @@ ("dur_m" :> DEFAULT_DUR_M)

\* _parse_sysstat_section on the SYSSTAT section of a dump (EmptyFn: no
\* section; headers <<>>: no header line): volumes in thousandths of a MB
\* per sampling window, the window in minutes.
sysstat_result(sec) ==
    IF sec = EmptyFn \/ sec.headers = <<>>
       \/ (/\ col_map(sec.headers, "network_incoming_mb") = None
           /\ col_map(sec.headers, "network_outgoing_mb") = None)
    THEN EmptyFn
    ELSE sysstat_dict(
             sysstat_rows(sec.lines,
                          col_map(sec.headers, "network_incoming_mb"),
                          col_map(sec.headers, "network_outgoing_mb"),
                          [incoming_vals |-> <<>>, outgoing_vals |-> <<>>]))

\* The SYSSTAT section of the dump files: 512 MB in and 1024 MB out in the
\* one sampling window.
DumpSysstat ==
    [headers |-> <<"SNAP_ID", "network_incoming_mb", "network_outgoing_mb">>,
     lines |-> <<<<Num(1), Num(512000), Num(1024000)>>>>]

parse_sysstat_section(content) ==
    IF content.sections THEN sysstat_result(DumpSysstat) ELSE EmptyFn

\* The conversion mb * (1440 / dur_m) * 1024 * 1024 of the SYSSTAT volumes,
\* given the SYSSTAT dict and the MAIN-METRICS dict: the window is the
\* dur_m of the SYSSTAT dict when it has one, else the dur_m of the
\* MAIN-METRICS dict, else 60 minutes.  A volume is held in thousandths of
\* a MiB, so the factor 1024 * 1024 is the step from the one unit to the
\* other.
network_daily_bytes(sysstat, mm) ==
    LET dur_m == IF "dur_m" \in DOMAIN sysstat
                 THEN sysstat["dur_m"]
                 ELSE IF "dur_m" \in DOMAIN mm
                 THEN mm["dur_m"] \div 1000
                 ELSE DEFAULT_DUR_M
    IN  (IF "network_outgoing_mb" \in DOMAIN sysstat
         THEN "sent_bytes_per_day" :>
                  (sysstat["network_outgoing_mb"] * MINUTES_PER_DAY) \div dur_m
         ELSE EmptyFn)
        @@ (IF "network_incoming_mb" \in DOMAIN sysstat
            THEN "recv_bytes_per_day" :>
                     (sysstat["network_incoming_mb"] * MINUTES_PER_DAY)
                         \div dur_m
            ELSE EmptyFn)

\* _parse_awr_out_network_from_content on one dump.
parse_awr_out_network_from_content(content) ==
    network_daily_bytes(parse_sysstat_section(content),
                        parse_main_metrics_full(IF content.sections
                                                THEN DumpSection ELSE EmptyFn))

\* The five section dicts of one dump, in the order they are merged.
section_dicts(content) ==
    <<parse_os_information(content),
      parse_main_metrics_full(IF content.sections
                              THEN DumpSection ELSE EmptyFn),
      parse_memory_section(content),
      parse_sga_advice(content),
      parse_awr_out_network_from_content(content)>>

\* 'v is not None' for the entry of key k; no section parser stores None
\* under a text key.
not_none(d, k) == k \in TextKeys \/ d[k] # None

\* The merge with a later value replacing an earlier one.
merge_last_wins(m, d) ==
    [k \in DOMAIN m \cup {k \in DOMAIN d : not_none(d, k)} |->
        IF k \in DOMAIN d /\ not_none(d, k) THEN d[k] ELSE m[k]]

\* for k, v in d.items(): if v is not None and k not in merged: merged[k] = v
merge_dict(m, d) ==
    [k \in DOMAIN m \cup {k \in DOMAIN d : not_none(d, k)} |->
        IF k \in DOMAIN m THEN m[k] ELSE d[k]]

\* for d in [os_info, main_metrics, memory, sga_advice, network]
RECURSIVE merge_sections(_, _)
merge_sections(m, ds) ==
    IF ds = <<>> THEN m ELSE merge_sections(merge_dict(m, Head(ds)), Tail(ds))

\* The loop over out_files: a file that cannot be read is skipped.
RECURSIVE merge_files(_, _)
merge_files(m, files) ==
    IF files = <<>>
    THEN m
    ELSE merge_files(IF Head(files).readable
                     THEN merge_sections(m, section_dicts(Head(files)))
                     ELSE m,
                     Tail(files))

\* The section dicts of the files that could be read, in processing order.
RECURSIVE read_dicts(_)
read_dicts(files) ==
    IF files = <<>>
    THEN <<>>
    ELSE (IF Head(files).readable
          THEN <<section_dicts(Head(files))>> ELSE <<>>)
             \o read_dicts(Tail(files))

\* ParsedDocumentInfo(): the fields followed here, all unset.  The fields
\* left out are filled like db_name (text) or cpu_cores (number).
ParsedDocumentInfo ==
    [db_name |-> "", cpu_cores |-> None, target_engine |-> "",
     recommended_instance_by_size |-> "", recommended_instance_by_sga |-> "",
     avg_cpu_percent |-> None, peak_cpu_percent |-> None,
     avg_cpu_per_s |-> None, peak_cpu_per_s |-> None,
     avg_iops |-> None, peak_iops |-> None,
     avg_memory_gb |-> None, peak_memory_gb |-> None,
     sqlnet_bytes_sent_per_day |-> None,
     sqlnet_bytes_received_per_day |-> None,
     redo_bytes_per_day |-> None,
     current_sga_gb |-> None, recommended_sga_gb |-> None,
     db_size_gb |-> None, current_db_size_gb |-> None]

\* Whether a field holds a value: text is tested for truth, numbers
\* against None.
IsSet(f, v) == IF f \in TextKeys THEN v # "" ELSE v # None

\* The fields _apply_awr_parsed fills, and the key of the merged dict each
\* is filled from.
AwrFields ==
    {"db_name", "cpu_cores", "avg_cpu_percent", "peak_cpu_percent",
     "avg_cpu_per_s", "peak_cpu_per_s", "avg_iops", "peak_iops",
     "avg_memory_gb", "peak_memory_gb", "sqlnet_bytes_sent_per_day",
     "sqlnet_bytes_received_per_day", "redo_bytes_per_day",
     "current_sga_gb", "recommended_sga_gb", "db_size_gb"}

AwrKey(f) ==
    CASE f = "sqlnet_bytes_sent_per_day" -> "sent_bytes_per_day"
      [] f = "sqlnet_bytes_received_per_day" -> "recv_bytes_per_day"
      [] OTHER -> f

\* _apply_awr_parsed
apply_awr_parsed(awr, info) ==
    IF awr = EmptyFn
    THEN info
    ELSE [f \in DOMAIN info |->
             IF f \in AwrFields /\ AwrKey(f) \in DOMAIN awr
                /\ IsSet(f, awr[AwrKey(f)])
             THEN awr[AwrKey(f)] ELSE info[f]]

\* os.listdir raises for the directory "" of a bare file name
\* (FileNotFoundError) and for a directory that may not be listed
\* (PermissionError).
listdir_raises(f, dir) ==
    \/ dir = ""
    \/ f.kind = "locked_dir"

\* os.path.dirname(file_path)
dirname(f) == IF f.kind = "bare_file" THEN "" ELSE "dir"

isfile(f) == f.kind \in {"file", "bare_file"}

isdir(f) == f.kind \in {"dir", "locked_dir"}

\* _find_awr_out_files
find_awr_out_files(f) ==
    IF isfile(f) /\ f.ext = ".out"
    THEN [raises |-> FALSE, files |-> f.outs]
    ELSE IF isdir(f)
         THEN [raises |-> listdir_raises(f, "dir"), files |-> f.outs]
         ELSE [raises |-> FALSE, files |-> <<>>]

\* _find_migration_recommendation and _parse_migration_recommendation: the
\* dict parsed from the recommendation file, {} without a readable one.
rec_data(f) == IF isdir(f) \/ isfile(f) THEN f.rec ELSE EmptyFn

\* _find_dbcsi_files
find_dbcsi_files(f) ==
    IF isdir(f)
    THEN [raises |-> listdir_raises(f, "dir"), found |-> f.dbcsi # EmptyFn]
    ELSE IF isfile(f)
         THEN [raises |-> listdir_raises(f, dirname(f)),
               found |-> f.dbcsi # EmptyFn]
         ELSE [raises |-> FALSE, found |-> FALSE]

\* _supplement_from_md_files, first part: the recommendation file.
supplement_from_rec(f, info) ==
    LET rec == rec_data(f)
        has(k) == k \in DOMAIN rec /\ rec[k] # ""
    IN  [info EXCEPT
            !.target_engine =
                IF has("target_engine") /\ info.target_engine = ""
                THEN rec["target_engine"] ELSE @,
            !.recommended_instance_by_size =
                IF has("recommended_instance_by_size")
                THEN rec["recommended_instance_by_size"] ELSE @,
            !.recommended_instance_by_sga =
                IF has("recommended_instance_by_sga")
                THEN rec["recommended_instance_by_sga"] ELSE @]

\* _supplement_from_md_files, second part: the CPU/s of the DBCSI report.
supplement_from_dbcsi(f, info) ==
    LET cpu_data == f.dbcsi
        take(k, old) == IF k \in DOMAIN cpu_data /\ cpu_data[k] # None
                        THEN cpu_data[k] ELSE old
    IN  [info EXCEPT !.avg_cpu_per_s = take("avg_cpu_per_s", @),
                     !.peak_cpu_per_s = take("peak_cpu_per_s", @)]

\* _supplement_from_md_files
supplement_from_md_files(f, info) ==
    LET after_rec == supplement_from_rec(f, info)
        dbcsi_files == find_dbcsi_files(f)
    IN  IF dbcsi_files.raises
        THEN [raises |-> TRUE, info |-> after_rec]
        ELSE [raises |-> FALSE,
              info |-> IF dbcsi_files.found
                       THEN supplement_from_dbcsi(f, after_rec)
                       ELSE after_rec]

\* _find_unstructured_files
find_unstructured_files(f) ==
    IF isfile(f)
    THEN [raises |-> FALSE, found |-> f.ext = ".pdf"]
    ELSE IF isdir(f)
         THEN [raises |-> listdir_raises(f, "dir"), found |-> f.docs > 0]
         ELSE [raises |-> FALSE, found |-> FALSE]

\* _merge_bedrock_supplement: only unset fields are filled.
merge_bedrock_supplement(bedrock, info) ==
    [f \in DOMAIN info |->
        IF ~IsSet(f, info[f]) /\ IsSet(f, bedrock[f])
        THEN bedrock[f] ELSE info[f]]

\* parse, second stage: the PDF and DOCX files go through Bedrock when
\* there is a client, and a result it returns fills the unset fields.
bedrock_stage(f, info) ==
    LET unstructured_files == find_unstructured_files(f)
    IN  IF unstructured_files.raises
        THEN [raises |-> TRUE, info |-> info]
        ELSE [raises |-> FALSE,
              info |-> IF unstructured_files.found /\ f.bedrock.client
                          /\ f.bedrock.answers
                       THEN merge_bedrock_supplement(f.bedrock.info, info)
                       ELSE info]

-----------------------------------------------------------------------------
(* parse() applied to what a path may name                                 *)

\* Largest number of dump files in a directory.
MaxOutFiles == 2

DumpContents ==
    {[readable |-> FALSE, db_name |-> "", sections |-> FALSE]}
    \cup {[readable |-> TRUE, db_name |-> n, sections |-> b] :
             n \in {"", "X", "Y"}, b \in BOOLEAN}

\* The dump files of a directory in the order sorted(os.listdir()) gives.
DumpLists == UNION {[1..n -> DumpContents] : n \in 0..MaxOutFiles}

\* What migration_recommendation.md yields: nothing, the target engine, or
\* the target engine and both instance recommendations.
RecData ==
    {EmptyFn,
     [target_engine |-> "aurora-postgresql"],
     [target_engine |-> "aurora-postgresql",
      recommended_instance_by_size |-> "db.r6i.8xlarge",
      recommended_instance_by_sga |-> "db.r6i.4xlarge"]}

\* What the DBCSI reports yield: nothing, or average and peak CPU/s.
DbcsiData ==
    {EmptyFn, [avg_cpu_per_s |-> 9000, peak_cpu_per_s |-> 12000]}

\* The validator sync_db_size, run when a ParsedDocumentInfo is constructed:
\* of db_size_gb and storage_growth.current_db_size_gb, the one that is
\* truthy is copied to the other that is not.
sync_db_size(info) ==
    LET truthy(v) == v # None /\ v # 0
    IN  IF truthy(info.db_size_gb) /\ ~truthy(info.current_db_size_gb)
        THEN [info EXCEPT !.current_db_size_gb = info.db_size_gb]
        ELSE IF truthy(info.current_db_size_gb) /\ ~truthy(info.db_size_gb)
        THEN [info EXCEPT !.db_size_gb = info.current_db_size_gb]
        ELSE info

\* What Bedrock extracts from the PDF and DOCX files when it answers: the
\* record constructed from its JSON, which gives the total size as 500 GB.
BedrockInfo ==
    sync_db_size(
    [db_name |-> "B", cpu_cores |-> 4, target_engine |-> "oracle-se2",
     recommended_instance_by_size |-> "db.m6i.large",
     recommended_instance_by_sga |-> "db.m6i.xlarge",
     avg_cpu_percent |-> 11000, peak_cpu_percent |-> 22000,
     avg_cpu_per_s |-> 700, peak_cpu_per_s |-> 800,
     avg_iops |-> 33000, peak_iops |-> 44000,
     avg_memory_gb |-> 5000, peak_memory_gb |-> 6000,
     sqlnet_bytes_sent_per_day |-> 1000,
     sqlnet_bytes_received_per_day |-> 2000,
     redo_bytes_per_day |-> 3000,
     current_sga_gb |-> 7000, recommended_sga_gb |-> 8000,
     db_size_gb |-> 500000, current_db_size_gb |-> None])

\* The Bedrock side: no client, a client whose call or text extraction
\* fails, a client that answers with every field or with a few.
BedrockCases ==
    {[client |-> FALSE, answers |-> FALSE, info |-> ParsedDocumentInfo],
     [client |-> TRUE, answers |-> FALSE, info |-> ParsedDocumentInfo],
     [client |-> TRUE, answers |-> TRUE, info |-> BedrockInfo],
     [client |-> TRUE, answers |-> TRUE,
      info |-> sync_db_size(
                   [ParsedDocumentInfo EXCEPT !.db_name = "B",
                                              !.avg_cpu_per_s = 700,
                                              !.target_engine = "oracle-se2",
                                              !.current_db_size_gb = 300000])]}

NoBedrock == [client |-> FALSE, answers |-> FALSE, info |-> ParsedDocumentInfo]

\* What the path given to parse() may name: nothing, a directory that may
\* not be listed, a directory with its files, a dump or a PDF named with
\* its directory ("file") or by its bare name ("bare_file").
FileSystems ==
    {[kind |-> k, ext |-> "", outs |-> <<>>, rec |-> EmptyFn,
      dbcsi |-> EmptyFn, docs |-> 0, bedrock |-> NoBedrock] :
        k \in {"missing", "locked_dir"}}
    \cup {[kind |-> "dir", ext |-> "", outs |-> o, rec |-> r, dbcsi |-> d,
           docs |-> 0, bedrock |-> NoBedrock] :
             o \in DumpLists, r \in RecData, d \in DbcsiData}
    \cup {[kind |-> "dir", ext |-> "", outs |-> o, rec |-> r, dbcsi |-> d,
           docs |-> 1, bedrock |-> b] :
             o \in DumpLists, r \in RecData, d \in DbcsiData,
             b \in BedrockCases}
    \cup {[kind |-> k, ext |-> ".out", outs |-> <<c>>, rec |-> r,
           dbcsi |-> d, docs |-> 0, bedrock |-> NoBedrock] :
             k \in {"file", "bare_file"}, c \in DumpContents,
             r \in RecData, d \in DbcsiData}
    \cup {[kind |-> k, ext |-> ".pdf", outs |-> <<>>, rec |-> r,
           dbcsi |-> d, docs |-> 1, bedrock |-> b] :
             k \in {"file", "bare_file"}, r \in RecData, d \in DbcsiData,
             b \in BedrockCases}

InitParse ==
    /\ PricingIdle
    /\ section = EmptyFn
    /\ rows = <<>>
    /\ main_metrics = EmptyFn
    /\ fs \in FileSystems
    /\ pc = "parse"
    /\ out_parsed = <<>>
    /\ merged = EmptyFn
    /\ doc_info = EmptyFn

\* parse: awr_parsed = self._parse_awr_out_full(file_path)
ParseAwrOutFull ==
    /\ pc = "parse"
    /\ LET out_files == find_awr_out_files(fs)
       IN  IF out_files.raises
           THEN /\ pc' = "raised"
                /\ UNCHANGED <<out_parsed, merged>>
           ELSE /\ pc' = "awr_parsed"
                /\ out_parsed' = read_dicts(out_files.files)
                /\ merged' = merge_files(EmptyFn, out_files.files)
    /\ UNCHANGED <<fs, doc_info>>
    /\ UNCHANGED <<pricingVars, metricsVars>>

\* parse: result = ParsedDocumentInfo(); self._apply_awr_parsed(...)
ApplyAwrParsed ==
    /\ pc = "awr_parsed"
    /\ doc_info' = apply_awr_parsed(merged, sync_db_size(ParsedDocumentInfo))
    /\ pc' = "applied"
    /\ UNCHANGED <<fs, out_parsed, merged>>
    /\ UNCHANGED <<pricingVars, metricsVars>>

\* parse: self._supplement_from_md_files(file_path, result)
SupplementFromMdFiles ==
    /\ pc = "applied"
    /\ LET r == supplement_from_md_files(fs, doc_info)
       IN  /\ doc_info' = r.info
           /\ pc' = IF r.raises THEN "raised" ELSE "supplemented"
    /\ UNCHANGED <<fs, out_parsed, merged>>
    /\ UNCHANGED <<pricingVars, metricsVars>>

\* parse: the Bedrock stage and the return of result
BedrockStage ==
    /\ pc = "supplemented"
    /\ LET r == bedrock_stage(fs, doc_info)
       IN  /\ doc_info' = r.info
           /\ pc' = IF r.raises THEN "raised" ELSE "done"
    /\ UNCHANGED <<fs, out_parsed, merged>>
    /\ UNCHANGED <<pricingVars, metricsVars>>

NextParse ==
    \/ ParseAwrOutFull
    \/ ApplyAwrParsed
    \/ SupplementFromMdFiles
    \/ BedrockStage

SpecParse == InitParse /\ [][NextParse]_vars

-----------------------------------------------------------------------------
(* Claims about parse()                                                    *)

\* C5: whatever the path names and whatever the files hold, parse()
\* returns a record: it never ends by raising.
C5_ParseNeverRaises == pc # "raised"

\* The dump files, among those read, that supply key k, and the value the
\* i-th of them supplies: that of the first of its section dicts holding k.
Suppliers(k) ==
    {i \in 1..Len(out_parsed) :
        \E j \in 1..Len(out_parsed[i]) : k \in DOMAIN out_parsed[i][j]}

Supplied(i, k) ==
    LET j == CHOOSE j \in 1..Len(out_parsed[i]) :
                 /\ k \in DOMAIN out_parsed[i][j]
                 /\ \A l \in 1..(j - 1) : k \notin DOMAIN out_parsed[i][l]
    IN  out_parsed[i][j][k]

SuppliedKeys ==
    UNION {DOMAIN out_parsed[i][j] :
              i \in 1..Len(out_parsed), j \in 1..5}

\* C6: the merge of the dump files holds, for each field, the value of the
\* first file in processing order that supplies one, and holds no field
\* that no file supplies.
C6_FirstFileWins ==
    /\ DOMAIN merged = SuppliedKeys
    /\ \A k \in SuppliedKeys :
           LET first == CHOOSE i \in Suppliers(k) :
                            \A l \in Suppliers(k) : i <= l
           IN  merged[k] = Supplied(first, k)

\* C6 witness: a dump naming the database "X" merged before a dump naming
\* it "Y" gives "X".
C6_Witness ==
    /\ pc = "awr_parsed"
    /\ Len(out_parsed) = 2
    /\ Suppliers("db_name") = {1, 2}
    /\ Supplied(1, "db_name") = "X"
    /\ Supplied(2, "db_name") = "Y"
    /\ merged["db_name"] = "X"

\* C7: a field of the result that holds a value keeps that value through
\* every later step of parse().
C7_PopulatedFieldKept ==
    [][\A f \in DOMAIN doc_info :
           IsSet(f, doc_info[f]) => doc_info'[f] = doc_info[f]]_vars

-----------------------------------------------------------------------------
(* Claims about the daily byte volumes                                     *)

\* The redo rate of the dump's one snapshot: the sum over its members, in
\* thousandths of a MB/s; the sampling window in minutes.
DumpRedoMbS == DumpMembers[1].redo_mb_s + DumpMembers[2].redo_mb_s

DumpDurM == DumpMembers[1].dur_m \div 1000

\* What the dump files yield for a daily volume, and the native figure it
\* is converted from.
DailyVolumes ==
    [redo_bytes_per_day |-> DumpRedoMbS * SECONDS_PER_DAY,
     sent_bytes_per_day |-> (1024000 * MINUTES_PER_DAY) \div DumpDurM,
     recv_bytes_per_day |-> (512000 * MINUTES_PER_DAY) \div DumpDurM]

NativeFigures ==
    [redo_bytes_per_day |-> DumpRedoMbS, sent_bytes_per_day |-> 1024000,
     recv_bytes_per_day |-> 512000]

-----------------------------------------------------------------------------
(* template_builder.py: TemplateBuilder.build, the cost placeholders.      *)
(* Amounts are in cents, traffic in hundredths of a GB; build is given     *)
(* args (engine, families, the instance of each family, the parsed         *)
(* figures, the traffic summary of the store or none) and two price        *)
(* indexes.                                                                 *)

ORACLE_ENGINES == {"oracle-ee", "oracle-se2"}

RECURSIVE Gcd(_, _)
Gcd(a, b) == IF b = 0 THEN a ELSE Gcd(b, a % b)

\* 1 + growth_rate as a reduced fraction.
tb_factor(args) ==
    [num |-> (100 + args.growth_percent) \div Gcd(100 + args.growth_percent, 100),
     den |-> 100 \div Gcd(100 + args.growth_percent, 100)]

\* db_size * (1 + growth_rate) ** year if db_size else 0
tb_size_at(args, year) ==
    [num |-> args.db_size_gb * Pow(tb_factor(args).num, year),
     den |-> Pow(tb_factor(args).den, year)]

\* The storage costs of year 0 scaled by the growth factor.
tb_storage_costs_scaled(args, year) ==
    LET c0 == IF args.engine \in AURORA_ENGINES
              THEN calc_aurora_storage_costs(args.db_size_gb, 1)
              ELSE calc_storage_costs(args.db_size_gb, 1, args.prov_iops,
                                      args.prov_tp)
        scaled(x) == RoundHalfEven(x * tb_size_at(args, year).num,
                                   args.db_size_gb * tb_size_at(args, year).den)
    IN  IF args.db_size_gb = 0 THEN c0
        ELSE [storage |-> scaled(c0.storage), iops |-> c0.iops,
              throughput |-> c0.throughput, total |-> scaled(c0.total)]

\* _fill_storage_costs, the costs of one year: calc_aurora_storage_costs or
\* calc_storage_costs at the size of that year.
tb_storage_costs_at(args, year) ==
    IF args.engine \in AURORA_ENGINES
    THEN calc_aurora_storage_costs(tb_size_at(args, year).num,
                                   tb_size_at(args, year).den)
    ELSE calc_storage_costs(tb_size_at(args, year).num,
                            tb_size_at(args, year).den,
                            args.prov_iops, args.prov_tp)

\* _fill_storage_costs: the keys of one year.
tb_fill_storage_year(args, year) ==
    LET costs == tb_storage_costs_at(args, year)
    IN  (("stor_cost_" \o YearStr(year)) :> Fmt(costs.storage))
        @@ ("iops_cost" :> Fmt(costs.iops))
        @@ ("throughput_cost" :> Fmt(costs.throughput))
        @@ (("stor_total_" \o YearStr(year)) :> Fmt(costs.total))
        @@ (("stor_yearly_" \o YearStr(year)) :> Fmt(costs.total * 12))
        @@ (("stor_maz_total_" \o YearStr(year)) :>
               Fmt(IF args.engine \in AURORA_ENGINES THEN costs.total
                   ELSE costs.total * 2))

\* _fill_storage_costs: for year in range(4), a later year overwriting
\* iops_cost and throughput_cost.
tb_fill_storage_costs(args) ==
    tb_fill_storage_year(args, 3) @@ tb_fill_storage_year(args, 2)
    @@ tb_fill_storage_year(args, 1) @@ tb_fill_storage_year(args, 0)

\* The cost keys among _NETWORK_STATIC_KEYS and the yearly key patterns.
NetworkCostKeys ==
    {"net_cost_cross_az", "net_cost_cross_az_yearly", "net_cost_maz_cross_az",
     "net_cost_maz_cross_az_yearly", "net_cost_rr_cross_az",
     "net_cost_rr_cross_az_yearly", "net_cost_rr_cross_region",
     "net_cost_rr_cross_region_yearly", "net_monthly", "net_maz_monthly"}
    \cup {"net_cost_cross_az_" \o YearStr(yr) : yr \in 1..3}
    \cup {"net_cost_cross_az_yearly_" \o YearStr(yr) : yr \in 1..3}

\* Defaults that say "N/A" under every key.
tb_fill_network_na == [k \in NetworkCostKeys |-> NA]

\* _fill_network_defaults: "0.00" under every key.
tb_fill_network_defaults == [k \in NetworkCostKeys |-> Fmt(0)]

\* cross_az_cost = client_monthly * cross_az_rate * 2, in hundredths of a
\* cent.
tb_cross_az_cost(net) ==
    (net.sent_daily_gb + net.recv_daily_gb) * 30 * NET_CROSS_AZ_PER_GB * 2

\* _fill_network_costs: the cost keys.  An amount of n hundredths of a cent
\* is formatted as round(n / 100) cents.
tb_fill_network_costs(args) ==
    IF ~args.db_store
    THEN tb_fill_network_defaults
    ELSE LET net == args.net
             cross_az_cost == tb_cross_az_cost(net)
             redo_monthly == net.redo_daily_gb * 30
             rr_cross_az_cost ==
                 cross_az_cost + redo_monthly * NET_CROSS_AZ_PER_GB
             rr_cross_region_cost ==
                 cross_az_cost + redo_monthly * NET_CROSS_REGION_PER_GB
             f == tb_factor(args)
             monthly(c) == Fmt(RoundHalfEven(c, 100))
             yearly(c) == Fmt(RoundHalfEven(c * 3, 25))
         IN  [k \in NetworkCostKeys |->
                 CASE k \in {"net_cost_cross_az", "net_cost_maz_cross_az",
                             "net_monthly", "net_maz_monthly"} ->
                          monthly(cross_az_cost)
                   [] k \in {"net_cost_cross_az_yearly",
                             "net_cost_maz_cross_az_yearly"} ->
                          yearly(cross_az_cost)
                   [] k = "net_cost_rr_cross_az" -> monthly(rr_cross_az_cost)
                   [] k = "net_cost_rr_cross_az_yearly" ->
                          yearly(rr_cross_az_cost)
                   [] k = "net_cost_rr_cross_region" ->
                          monthly(rr_cross_region_cost)
                   [] k = "net_cost_rr_cross_region_yearly" ->
                          yearly(rr_cross_region_cost)
                   [] OTHER ->
                          LET yr == CHOOSE yr \in 1..3 :
                                        k \in {"net_cost_cross_az_"
                                                   \o YearStr(yr),
                                               "net_cost_cross_az_yearly_"
                                                   \o YearStr(yr)}
                              num == cross_az_cost * Pow(f.num, yr)
                              den == Pow(f.den, yr)
                          IN  IF k = "net_cost_cross_az_" \o YearStr(yr)
                              THEN Fmt(RoundHalfEven(num, 100 * den))
                              ELSE Fmt(RoundHalfEven(num * 3, 25 * den))]

\* The union of placeholder dicts that share no key.
Merge(S) ==
    [k \in UNION {DOMAIN f : f \in S} |-> (CHOOSE f \in S : k \in DOMAIN f)[k]]

\* pricing_options of _fill_pricing and _fill_refactoring_comparison.
tb_pricing_options ==
    {<<"od", ON_DEMAND>>, <<"ri1nu", RI_1YR_NO_UPFRONT>>,
     <<"ri1au", RI_1YR_ALL_UPFRONT>>, <<"ri3nu", RI_3YR_NO_UPFRONT>>,
     <<"ri3au", RI_3YR_ALL_UPFRONT>>}

\* The families of a sequence as a set.
FamilySet(families) == {families[i] : i \in 1..Len(families)}

\* instances.get(family)
InstanceOf(instances, family) ==
    IF family \in DOMAIN instances THEN instances[family] ELSE ""

\* _fill_pricing: a family without an instance is skipped; the keys of a
\* pricing option are filled as in Estimator._fill_pricing.
tb_fill_pricing(d, index, instances, families, prefix) ==
    Merge({fill_pricing_option(d, index, InstanceOf(instances, fam),
                               prefix \o "_" \o fam, deploy, o[1], o[2]) :
              fam \in {x \in FamilySet(families) :
                          InstanceOf(instances, x) # ""},
              deploy \in {"Single-AZ", "Multi-AZ"},
              o \in tb_pricing_options})

\* _fill_comparison
tb_fill_comparison(d, families) ==
    Merge({("comp_" \o prefix \o "_" \o fam \o "_" \o o[1]) :>
               GetOrNA(d, prefix \o "_" \o fam \o "_" \o o[1]
                          \o "_total_yearly") :
              prefix \in {"spec", "sga"}, fam \in FamilySet(families),
              o \in tb_pricing_options})

\* _fill_tco: yearly_stor of year 1..3.
tb_yearly_stor(args, year) == tb_storage_costs_at(args, year).total * 12

\* _fill_tco: yearly_net of year 1..3, net_monthly_base * factor * 12, as a
\* numerator over the denominator factor.den ^ 3.
tb_yearly_net(d, args, year) ==
    GetNum(d, "net_monthly") * 12 * Pow(tb_factor(args).num, year)
    * Pow(tb_factor(args).den, 3 - year)

\* The TCO of a row whose instance quote is missing, summed all the same.
tb_tco_partial(d, args, monthly_key) ==
    Fmt(RoundSum(GetNum(d, monthly_key) * 12 * 3
                 + tb_yearly_stor(args, 1) + tb_yearly_stor(args, 2)
                 + tb_yearly_stor(args, 3),
                 tb_yearly_net(d, args, 1) + tb_yearly_net(d, args, 2)
                 + tb_yearly_net(d, args, 3),
                 Pow(tb_factor(args).den, 3)))

\* _fill_tco: inst_yearly * 3 + stor_3yr_total + net_3yr_total, "N/A" when
\* the monthly instance cost is "N/A".
tb_tco_value(d, args, monthly_key) ==
    IF GetOrNA(d, monthly_key).na THEN NA
    ELSE Fmt(RoundSum(GetNum(d, monthly_key) * 12 * 3
                      + tb_yearly_stor(args, 1) + tb_yearly_stor(args, 2)
                      + tb_yearly_stor(args, 3),
                      tb_yearly_net(d, args, 1) + tb_yearly_net(d, args, 2)
                      + tb_yearly_net(d, args, 3),
                      Pow(tb_factor(args).den, 3)))

\* _fill_tco: the TCO keys of every prefix, family and option.
tb_fill_tco(d, args) ==
    Merge({("tco_" \o prefix \o "_" \o fam \o "_" \o o[1]) :>
               tb_tco_value(d, args,
                            prefix \o "_" \o fam \o "_" \o o[2] \o "_monthly") :
              prefix \in {"spec", "sga"}, fam \in FamilySet(args.families),
              o \in TcoOptions})

\* _fill_tco: the detail keys of one family (SGA instance, 3-year RI).
tb_fill_tco_detail(d, args, fam) ==
    LET inst == GetOrNA(d, "sga_" \o fam \o "_ri3au_monthly")
        den == Pow(tb_factor(args).den, 3)
        stor_total == tb_yearly_stor(args, 1) + tb_yearly_stor(args, 2)
                      + tb_yearly_stor(args, 3)
        net_total == tb_yearly_net(d, args, 1) + tb_yearly_net(d, args, 2)
                     + tb_yearly_net(d, args, 3)
        year(yr) ==
            (("tco_detail_" \o fam \o "_inst_" \o YearStr(yr)) :>
                IF inst.na THEN NA ELSE Fmt(inst.v * 12))
            @@ (("tco_detail_stor_" \o YearStr(yr)) :>
                   Fmt(tb_yearly_stor(args, yr)))
            @@ (("tco_detail_net_" \o YearStr(yr)) :>
                   Fmt(RoundHalfEven(tb_yearly_net(d, args, yr), den)))
            @@ (("tco_detail_" \o fam \o "_" \o YearStr(yr)) :>
                   IF inst.na THEN NA
                   ELSE Fmt(RoundSum(inst.v * 12 + tb_yearly_stor(args, yr),
                                     tb_yearly_net(d, args, yr), den)))
    IN  year(1) @@ year(2) @@ year(3)
        @@ (("tco_detail_" \o fam \o "_inst_total") :>
               IF inst.na THEN NA ELSE Fmt(inst.v * 12 * 3))
        @@ ("tco_detail_stor_total" :> Fmt(stor_total))
        @@ ("tco_detail_net_total" :> Fmt(RoundHalfEven(net_total, den)))
        @@ (("tco_detail_" \o fam \o "_total") :>
               IF inst.na THEN NA
               ELSE Fmt(RoundSum(inst.v * 12 * 3 + stor_total, net_total,
                                 den)))

\* savings / replat_y * 100 formatted with one decimal, in tenths of a
\* percent; 0 when replat_y is not positive.
tb_savings_rate(savings, replat_y) ==
    IF replat_y > 0 THEN RoundHalfEven(savings * 1000, replat_y) ELSE 0

\* The savings taken the other way round.
tb_savings_reversed(replat_y, refac_total_y) == refac_total_y - replat_y

\* savings = replat_y - refac_total_y
tb_savings(replat_y, refac_total_y) == replat_y - refac_total_y

\* The four keys of _fill_refactoring_defaults for one family and option.
tb_refac_na(fam, opt_key) ==
    [k \in {"refac_" \o fam \o "_" \o opt_key \o suffix :
               suffix \in {"_monthly", "_total_yearly", "_savings",
                           "_savings_rate"}} |-> NA]

\* _fill_refactoring_defaults
tb_fill_refactoring_defaults(families) ==
    Merge({tb_refac_na(fam, o[1]) :
              fam \in FamilySet(families), o \in tb_pricing_options})

\* _fill_refactoring_comparison: one family and pricing option.
tb_refac_option(d, refac_index, inst, fam, opt_key, pt) ==
    LET refac_monthly == IF inst = "" THEN None
                         ELSE get_monthly(refac_index, inst, "Single-AZ", pt)
        refac_total_y == (refac_monthly + GetNum(d, "stor_total_0y")
                          + GetNum(d, "net_monthly")) * 12
        replat == GetOrNA(d, "sga_" \o fam \o "_" \o opt_key
                             \o "_total_yearly")
        key == "refac_" \o fam \o "_" \o opt_key
        savings == tb_savings(replat.v, refac_total_y)
    IN  IF refac_monthly = None
        THEN tb_refac_na(fam, opt_key)
        ELSE ((key \o "_monthly") :> Fmt(refac_monthly))
             @@ ((key \o "_total_yearly") :> Fmt(refac_total_y))
             @@ ((key \o "_savings") :>
                    IF replat.na THEN NA ELSE Fmt(savings))
             @@ ((key \o "_savings_rate") :>
                    IF replat.na THEN NA
                    ELSE Fmt(tb_savings_rate(savings, replat.v)))

\* _fill_refactoring_comparison
tb_fill_refactoring_comparison(d, refac_index, sga_instances, families) ==
    Merge({tb_refac_option(d, refac_index, InstanceOf(sga_instances, fam),
                           fam, o[1], o[2]) :
              fam \in FamilySet(families), o \in tb_pricing_options})

\* float(data.get(key, "0").replace(",", "")) raises ValueError for "N/A":
\* the conversions _fill_pricing, _fill_tco and
\* _fill_refactoring_comparison make without a test.
tb_float_raises(d) ==
    \E k \in {"stor_total_0y", "stor_maz_total_0y", "net_monthly",
              "net_maz_monthly"} : GetOrNA(d, k).na /\ k \in DOMAIN d

-----------------------------------------------------------------------------
(* What build is called with.                                              *)

BuildInstance == [r6i |-> "db.r6i.xlarge", r7i |-> "db.r7i.xlarge"]

\* The rates of a quote in ticks: the replatform engine at $1.00 an hour,
\* $600 a month, $12,000 upfront for a year, $500 a month and $14,400
\* upfront for three years; Aurora PostgreSQL at $0.50 an hour, $300 a
\* month, $4,380, $250 a month and $7,200.
QuoteRates(pt, refactoring) ==
    CASE pt = ON_DEMAND ->
             [hourly |-> IF refactoring THEN 50 * Cent ELSE 100 * Cent,
              upfront |-> None, monthly |-> None]
      [] pt = RI_1YR_NO_UPFRONT ->
             [hourly |-> None, upfront |-> 0,
              monthly |-> IF refactoring THEN 30000 * Cent ELSE 60000 * Cent]
      [] pt = RI_1YR_ALL_UPFRONT ->
             [hourly |-> None,
              upfront |-> IF refactoring THEN 438000 * Cent
                          ELSE 1200000 * Cent,
              monthly |-> 0]
      [] pt = RI_3YR_NO_UPFRONT ->
             [hourly |-> None, upfront |-> 0,
              monthly |-> IF refactoring THEN 25000 * Cent ELSE 50000 * Cent]
      [] pt = RI_3YR_ALL_UPFRONT ->
             [hourly |-> None,
              upfront |-> IF refactoring THEN 720000 * Cent
                          ELSE 1440000 * Cent,
              monthly |-> 0]

\* One record of a price index.  kind "full" quotes every option, "od_only"
\* has the reserved options unavailable, "zero" quotes every rate as 0 and
\* "double" quotes twice the rates; Multi-AZ costs twice Single-AZ.
QuotedRecord(inst, deploy, pt, kind, refactoring) ==
    LET q == QuoteRates(pt, refactoring)
        times == (IF deploy = "Multi-AZ" THEN 2 ELSE 1)
                 * (CASE kind = "zero" -> 0 [] kind = "double" -> 2
                      [] OTHER -> 1)
        rate(x) == IF x = None THEN None ELSE x * times
    IN  IF kind = "od_only" /\ pt # ON_DEMAND
        THEN CostRecord(InstanceSpec(inst, deploy), pt, None, None, None,
                        None, FALSE)
        ELSE CostRecord(InstanceSpec(inst, deploy), pt, rate(q.hourly),
                        rate(q.upfront), rate(q.monthly), None, TRUE)

\* A price index: (instance_type, deployment_option, pricing_type) -> record.
QuotedIndex(kind, refactoring) ==
    IF kind = "none" THEN EmptyFn
    ELSE [k \in {BuildInstance[f] : f \in DOMAIN BuildInstance}
                \X {"Single-AZ", "Multi-AZ"}
                \X {o[2] : o \in tb_pricing_options} |->
             QuotedRecord(k[1], k[2], k[3], kind, refactoring)]

\* get_network_traffic_summary of the store, in hundredths of a GB a day.
TrafficSummaries ==
    {[sent_daily_gb |-> 0, recv_daily_gb |-> 0, redo_daily_gb |-> 0],
     [sent_daily_gb |-> 200, recv_daily_gb |-> 100, redo_daily_gb |-> 100],
     [sent_daily_gb |-> 12, recv_daily_gb |-> 11, redo_daily_gb |-> 5]}

\* The families passed with the instances recommended for the current
\* specification and for the SGA-optimised one.
FamilyInstances ==
    {[families |-> <<"r6i">>,
      spec_instances |-> [k \in {"r6i"} |-> BuildInstance[k]],
      sga_instances |-> [k \in {"r6i"} |-> BuildInstance[k]]],
     [families |-> <<"r6i">>, spec_instances |-> EmptyFn,
      sga_instances |-> EmptyFn],
     [families |-> <<"r6i", "r7i">>, spec_instances |-> BuildInstance,
      sga_instances |-> BuildInstance],
     [families |-> <<"r6i", "r7i">>, spec_instances |-> BuildInstance,
      sga_instances |-> [k \in {"r6i"} |-> BuildInstance[k]]],
     [families |-> <<"r6i", "r7i">>,
      spec_instances |-> [k \in {"r6i"} |-> BuildInstance[k]],
      sga_instances |-> EmptyFn]}

\* StorageGrowth.yearly_growth_rate_percent when no source gives a rate.
DEFAULT_GROWTH_RATE_PERCENT == 15

\* The parsed figures and the store: no store; a store without traffic; 100
\* GB with 3 GB of client traffic a day, without and with provisioned IOPS;
\* no size, provisioned IOPS and a fraction of a GB a day.  The yearly
\* growth rate is the default one, or one a source gives: 0 % for a
\* database that does not grow, or 10 %.
Workloads ==
    {[db_size_gb |-> 0, prov_iops |-> 0, db_store |-> FALSE,
      yearly_growth_rate_percent |-> DEFAULT_GROWTH_RATE_PERCENT,
      net |-> CHOOSE n \in TrafficSummaries : n.sent_daily_gb = 0],
     [db_size_gb |-> 0, prov_iops |-> 0, db_store |-> TRUE,
      yearly_growth_rate_percent |-> DEFAULT_GROWTH_RATE_PERCENT,
      net |-> CHOOSE n \in TrafficSummaries : n.sent_daily_gb = 0],
     [db_size_gb |-> 100, prov_iops |-> 0, db_store |-> TRUE,
      yearly_growth_rate_percent |-> 0,
      net |-> CHOOSE n \in TrafficSummaries : n.sent_daily_gb = 200],
     [db_size_gb |-> 100, prov_iops |-> 0, db_store |-> TRUE,
      yearly_growth_rate_percent |-> 10,
      net |-> CHOOSE n \in TrafficSummaries : n.sent_daily_gb = 200],
     [db_size_gb |-> 100, prov_iops |-> 3100, db_store |-> TRUE,
      yearly_growth_rate_percent |-> DEFAULT_GROWTH_RATE_PERCENT,
      net |-> CHOOSE n \in TrafficSummaries : n.sent_daily_gb = 200],
     [db_size_gb |-> 0, prov_iops |-> 3100, db_store |-> TRUE,
      yearly_growth_rate_percent |-> DEFAULT_GROWTH_RATE_PERCENT,
      net |-> CHOOSE n \in TrafficSummaries : n.sent_daily_gb = 12]}

\* The engine of the arguments with the refactoring index looked up for it.
EngineIndexes ==
    {[engine |-> "oracle-ee", refac_index |-> QuotedIndex(kind, TRUE)] :
        kind \in {"none", "full", "double"}}
    \cup {[engine |-> e, refac_index |-> QuotedIndex("full", TRUE)] :
             e \in {"postgresql", "aurora-postgresql"}}

\* build: (sg.yearly_growth_rate_percent or 15), the rate in percent.
tb_growth_rate(yearly_growth_rate_percent) ==
    IF yearly_growth_rate_percent = None \/ yearly_growth_rate_percent = 0
    THEN 15
    ELSE yearly_growth_rate_percent

\* The arguments of build with its local growth_rate, in percent.
BuildInputs ==
    {fi @@ w @@ ei
        @@ [growth_percent |-> tb_growth_rate(w.yearly_growth_rate_percent),
            prov_tp |-> 0] :
        fi \in FamilyInstances, w \in Workloads, ei \in EngineIndexes}

\* build: data["yearly_growth_rate"] = round(growth_rate * 100, 1)
tb_fill_growth(args) ==
    "yearly_growth_rate" :> [na |-> FALSE, v |-> args.growth_percent]

InitBuild ==
    /\ cache = EmptyFn
    /\ tasks = <<>>
    /\ phase = "build"
    /\ run_args \in BuildInputs
    /\ all_records = <<>>
    /\ db = EmptyFn
    /\ pending = <<>>
    /\ offered = EmptyFn
    /\ price_index \in {QuotedIndex(kind, FALSE) :
                           kind \in {"none", "full", "od_only", "zero"}}
    /\ data = EmptyFn
    /\ ParserIdle

\* build: the growth rate, _fill_storage_costs and _fill_network_costs.
FillCosts ==
    /\ phase = "build"
    /\ data' = tb_fill_network_costs(run_args)
                   @@ tb_fill_storage_costs(run_args)
                   @@ tb_fill_growth(run_args)
    /\ phase' = "costs"
    /\ UNCHANGED parserVars
    /\ UNCHANGED <<cache, tasks, run_args, all_records, db, pending, offered,
                   price_index>>

\* build: the two _fill_pricing calls; a ValueError of float() leaves build.
FillPricing ==
    /\ phase = "costs"
    /\ IF tb_float_raises(data)
       THEN /\ phase' = "raised"
            /\ UNCHANGED data
       ELSE /\ phase' = "pricing"
            /\ data' = tb_fill_pricing(data, price_index,
                                       run_args.sga_instances,
                                       run_args.families, "sga")
                       @@ tb_fill_pricing(data, price_index,
                                          run_args.spec_instances,
                                          run_args.families, "spec")
                       @@ data
    /\ UNCHANGED parserVars
    /\ UNCHANGED <<cache, tasks, run_args, all_records, db, pending, offered,
                   price_index>>

\* build: _fill_comparison and _fill_tco.
FillComparisonTco ==
    /\ phase = "pricing"
    /\ data' = Merge({tb_fill_tco_detail(data, run_args, fam) :
                         fam \in FamilySet(run_args.families)})
               @@ tb_fill_tco(data, run_args)
               @@ tb_fill_comparison(data, run_args.families) @@ data
    /\ phase' = "compared"
    /\ UNCHANGED parserVars
    /\ UNCHANGED <<cache, tasks, run_args, all_records, db, pending, offered,
                   price_index>>

\* build: the refactoring comparison for an Oracle engine with a refactoring
\* index, else its defaults; build returns data.
FillRefactoring ==
    /\ phase = "compared"
    /\ data' = (IF /\ run_args.engine \in ORACLE_ENGINES
                   /\ run_args.refac_index # EmptyFn
                THEN tb_fill_refactoring_comparison(data,
                                                    run_args.refac_index,
                                                    run_args.sga_instances,
                                                    run_args.families)
                ELSE tb_fill_refactoring_defaults(run_args.families))
               @@ data
    /\ phase' = "built"
    /\ UNCHANGED parserVars
    /\ UNCHANGED <<cache, tasks, run_args, all_records, db, pending, offered,
                   price_index>>

NextBuild ==
    \/ FillCosts
    \/ FillPricing
    \/ FillComparisonTco
    \/ FillRefactoring

SpecBuild == InitBuild /\ [][NextBuild]_vars

-----------------------------------------------------------------------------
(* Claims about the placeholders of build.                                 *)

\* The keys whose value may be negative: a saving against a dearer
\* refactoring.
SavingsKeys ==
    {"refac_" \o fam \o "_" \o o[1] \o suffix :
        fam \in {"r6i", "r7i"}, o \in tb_pricing_options,
        suffix \in {"_savings", "_savings_rate"}}

FamilyKeys(fam) ==
    {prefix \o "_" \o fam \o deploy \o o[1] \o suffix :
        prefix \in {"spec", "sga"}, deploy \in {"_", "_maz_"},
        o \in tb_pricing_options,
        suffix \in {"_monthly", "_total_monthly", "_total_yearly"}}
    \cup {"comp_" \o prefix \o "_" \o fam \o "_" \o o[1] :
             prefix \in {"spec", "sga"}, o \in tb_pricing_options}
    \cup {"tco_" \o prefix \o "_" \o fam \o "_" \o o[1] :
             prefix \in {"spec", "sga"}, o \in TcoOptions}
    \cup {"refac_" \o fam \o "_" \o o[1] \o suffix :
             o \in tb_pricing_options,
             suffix \in {"_monthly", "_total_yearly", "_savings",
                         "_savings_rate"}}

\* The storage keys of the four years.
StorageKeys ==
    {stem \o YearStr(year) :
        stem \in {"stor_cost_", "stor_total_", "stor_yearly_",
                  "stor_maz_total_"}, year \in 0..3}
    \cup {"iops_cost", "throughput_cost"}

\* C13: the keys of the result do not depend on what data exists: every
\* storage and network key and, for every family passed, every pricing,
\* comparison, TCO and refactoring key is present.
C13_KeysPresent ==
    phase = "built" =>
        /\ StorageKeys \cup NetworkCostKeys \subseteq DOMAIN data
        /\ \A fam \in FamilySet(run_args.families) :
               FamilyKeys(fam) \subseteq DOMAIN data

-----------------------------------------------------------------------------
(* Claims about the 3-year TCO.                                            *)

\* 36 x monthly compute cost + the sum over y = 1..3 of 12 x stor[y] + the
\* sum over y = 1..3 of 12 x net_base x (1 + growth_rate)^y, in cents; f is
\* 1 + growth_rate as a fraction.
TcoFormula(monthly, stor, net_base, f) ==
    RoundSum(monthly * 36 + 12 * (stor[1] + stor[2] + stor[3]),
             net_base * 12
             * (f.num * f.den * f.den + f.num * f.num * f.den
                + f.num * f.num * f.num),
             f.den * f.den * f.den)

\* C14: every TCO row of run_v2 with a compute quote equals 36 x the monthly
\* compute cost plus 12 x the storage cost and 12 x the network cost of the
\* projection years 1, 2 and 3.
C14_TcoYears1To3 ==
    phase = "built" /\ run_args \in RunInputs =>
        \A c \in Combos, o \in TcoOptions :
            LET monthly == GetOrNA(data, c \o "_" \o o[2] \o "_monthly")
            IN  ~monthly.na =>
                    data["tco_" \o c \o "_" \o o[1]] =
                        Fmt(TcoFormula(monthly.v,
                                       [y \in 1..3 |->
                                           storage_costs_at(run_args, y).total],
                                       GetNum(data, "net_monthly"),
                                       tb_factor(run_args)))

\* The pricing type of an option key.
OptionType(opt_key) == (CHOOSE o \in tb_pricing_options : o[1] = opt_key)[2]

\* No usable compute quote: no instance for the family, no record in the
\* index, or a record that is unavailable.
QuoteMissing(index, inst, pt) ==
    \/ inst = ""
    \/ <<inst, "Single-AZ", pt>> \notin DOMAIN index
    \/ ~index[<<inst, "Single-AZ", pt>>].is_available

\* C15: a TCO row whose compute quote is missing or unavailable is "N/A" as
\* a whole, never the sum of the storage and network components alone.
C15_NoQuoteNoTco ==
    phase = "built" /\ run_args \in BuildInputs =>
        \A prefix \in {"spec", "sga"}, fam \in FamilySet(run_args.families),
           o \in TcoOptions :
            QuoteMissing(price_index,
                         InstanceOf(run_args[prefix \o "_instances"], fam),
                         OptionType(o[2]))
            => data["tco_" \o prefix \o "_" \o fam \o "_" \o o[1]] = NA

\* Reserved quotes unavailable, on-demand quoted, a storage that costs:
\* the reserved TCO rows are "N/A", the on-demand row is a number.
C15_Witness ==
    /\ phase = "built"
    /\ run_args \in BuildInputs
    /\ "r6i" \in DOMAIN run_args.spec_instances
    /\ <<"db.r6i.xlarge", "Single-AZ", RI_1YR_ALL_UPFRONT>>
           \in DOMAIN price_index
    /\ ~price_index[<<"db.r6i.xlarge", "Single-AZ",
                      RI_1YR_ALL_UPFRONT>>].is_available
    /\ data["tco_detail_stor_total"].v > 0
    /\ data["tco_spec_r6i_ri1"] = NA
    /\ data["tco_spec_r6i_ri3"] = NA
    /\ ~data["tco_spec_r6i_od"].na

-----------------------------------------------------------------------------
(* Claims about the yearly storage and network costs.                      *)

\* The storage cost model at the size of year y.
StorageModelAt(args, y) ==
    IF args.engine \in AURORA_ENGINES
    THEN calc_aurora_storage_costs(size_at(args, y).num, size_at(args, y).den)
    ELSE calc_storage_costs(size_at(args, y).num, size_at(args, y).den,
                            args.prov_iops, args.prov_tp)

\* The cross-AZ cost model at the client traffic of year y, in cents: the
\* monthly traffic (hundredths of a GB) x the rate x 2.
NetworkModelAt(args, y) ==
    RoundHalfEven((args.net.sent_daily_gb + args.net.recv_daily_gb) * 30
                  * Pow(tb_factor(args).num, y) * NET_CROSS_AZ_PER_GB * 2,
                  100 * Pow(tb_factor(args).den, y))

\* C16: the storage cost and the network cost of the projection years 1, 2
\* and 3 are the cost models evaluated at the workload of that year,
\* current size x (1 + growth_rate)^y.
C16_YearlyCostsAfresh ==
    phase = "built" /\ run_args \in BuildInputs =>
        \A y \in 1..3 :
            /\ data["stor_total_" \o YearStr(y)] =
                   Fmt(StorageModelAt(run_args, y).total)
            /\ data["stor_cost_" \o YearStr(y)] =
                   Fmt(StorageModelAt(run_args, y).storage)
            /\ run_args.db_store =>
                   data["net_cost_cross_az_" \o YearStr(y)] =
                       Fmt(NetworkModelAt(run_args, y))

\* 100 GB with 3,100 provisioned IOPS: 10.00 a month now, 11.20 in year 1
\* (not 11.50); 3 GB of client traffic a day: 1.80 now, 2.07 in year 1.
C16_Witness ==
    /\ phase = "built"
    /\ run_args \in BuildInputs
    /\ run_args.db_store
    /\ data["stor_total_0y"] = Fmt(1000)
    /\ data["stor_total_1y"] = Fmt(1120)
    /\ data["stor_total_3y"] = Fmt(1417)
    /\ data["net_cost_cross_az"] = Fmt(180)
    /\ data["net_cost_cross_az_1y"] = Fmt(207)

\* C17: for gp3 storage the Multi-AZ storage cost of every year is twice the
\* capacity cost plus the excess-IOPS and excess-throughput costs once.
C17_MultiAzDoublesCapacityOnly ==
    phase = "built" /\ run_args \in BuildInputs
    /\ run_args.engine \notin AURORA_ENGINES =>
        \A y \in 0..3 :
            data["stor_maz_total_" \o YearStr(y)] =
                Fmt(2 * StorageModelAt(run_args, y).storage
                    + StorageModelAt(run_args, y).iops
                    + StorageModelAt(run_args, y).throughput)

-----------------------------------------------------------------------------
(* Claims about the refactoring comparison.                                *)

Abs(x) == IF x < 0 THEN -x ELSE x

\* C18: where the replatform and the refactoring annual totals of a family
\* and option are both available, savings is their difference and the
\* savings rate is savings / replatform x 100 to one decimal (replatform
\* 12,000.00 and refactoring 4,380.00: 7,620.00 and 63.5).
C18_SavingsFormula ==
    phase = "built" /\ run_args \in BuildInputs =>
        \A fam \in FamilySet(run_args.families), o \in tb_pricing_options :
            LET replat == data["sga_" \o fam \o "_" \o o[1] \o "_total_yearly"]
                refac == data["refac_" \o fam \o "_" \o o[1]
                              \o "_total_yearly"]
                savings == data["refac_" \o fam \o "_" \o o[1] \o "_savings"]
                rate == data["refac_" \o fam \o "_" \o o[1]
                             \o "_savings_rate"]
            IN  /\ ~refac.na
                /\ ("sga_" \o fam \o "_" \o o[1] \o "_total_yearly")
                       \in DOMAIN data
                /\ ~replat.na
                /\ replat.v > 0
                => /\ savings = Fmt(replat.v - refac.v)
                   /\ ~rate.na
                   /\ Abs(rate.v * replat.v - (replat.v - refac.v) * 1000)
                          <= replat.v \div 2

\* The example: 12,000.00 against 4,380.00 saves 7,620.00, 63.5 %.
C18_Witness ==
    /\ phase = "built"
    /\ run_args \in BuildInputs
    /\ "sga_r6i_ri1au_total_yearly" \in DOMAIN data
    /\ data["sga_r6i_ri1au_total_yearly"] = Fmt(1200000)
    /\ data["refac_r6i_ri1au_total_yearly"] = Fmt(438000)
    /\ data["refac_r6i_ri1au_savings"] = Fmt(762000)
    /\ data["refac_r6i_ri1au_savings_rate"] = Fmt(635)

\* C19: whenever the savings rate is undefined, the replatform annual total
\* being zero or one of the two annual totals missing, the savings rate is
\* "N/A", never a number.
C19_UndefinedRateIsNA ==
    phase = "built" /\ run_args \in BuildInputs =>
        \A fam \in FamilySet(run_args.families), o \in tb_pricing_options :
            LET replat == GetOrNA(data, "sga_" \o fam \o "_" \o o[1]
                                        \o "_total_yearly")
                refac == data["refac_" \o fam \o "_" \o o[1]
                              \o "_total_yearly"]
            IN  replat.na \/ refac.na \/ replat.v = 0
                => data["refac_" \o fam \o "_" \o o[1] \o "_savings_rate"]
                       = NA

-----------------------------------------------------------------------------
(* Claims about the annual cost of a price record.                         *)

\* The annual cost by purchase option: hourly_rate x 24 x 365 on demand,
\* upfront_fee + monthly_fee x 12 for a year reserved, a third of
\* upfront_fee + monthly_fee x 36 for three years; unset without the rates.
AnnualFormula(rec) ==
    CASE rec.pricing_type = ON_DEMAND ->
             IF rec.hourly_rate # None THEN rec.hourly_rate * 24 * 365
             ELSE None
      [] rec.pricing_type \in {RI_1YR_NO_UPFRONT, RI_1YR_ALL_UPFRONT} ->
             IF rec.upfront_fee # None /\ rec.monthly_fee # None
             THEN rec.upfront_fee + rec.monthly_fee * 12 ELSE None
      [] rec.pricing_type \in {RI_3YR_NO_UPFRONT, RI_3YR_ALL_UPFRONT} ->
             IF rec.upfront_fee # None /\ rec.monthly_fee # None
             THEN (rec.upfront_fee + rec.monthly_fee * 36) \div 3 ELSE None
      [] OTHER -> None

\* C20: the annual cost of a record constructed without one is the formula of
\* its purchase option over its rate fields (unset when a rate is missing);
\* a record of run_v2 differs from the formula only where the fallback
\* supplied the annual cost, which is then the supplied value, and an annual
\* cost given to the constructor is kept.
C20_AnnualDerived ==
    /\ \A t \in 1..Len(tasks) : \A i \in 1..Len(tasks[t].records) :
           tasks[t].records[i].annual_cost = AnnualFormula(tasks[t].records[i])
    /\ \A k \in DOMAIN price_index :
           \/ price_index[k].annual_cost = AnnualFormula(price_index[k])
           \/ /\ k \in DOMAIN offered
              /\ price_index[k].annual_cost = db[k].annual_cost
    /\ \A pt \in {ON_DEMAND, RI_1YR_ALL_UPFRONT, RI_3YR_NO_UPFRONT} :
           \A rate \in {None, 100 * Cent}, supplied \in {0, 500 * Cent} :
               compute_annual_cost(pt, rate, rate, rate, supplied) = supplied

\* An index with an on-demand record, a reserved record of the price list, a
\* record without rates and a record whose annual cost the fallback supplied.
C20_Witness ==
    /\ phase = "indexed"
    /\ \E k \in DOMAIN price_index :
           /\ k[3] = ON_DEMAND
           /\ price_index[k].hourly_rate = 100 * Cent
           /\ price_index[k].annual_cost = 876000 * Cent
    /\ \E k \in DOMAIN price_index :
           /\ k[3] = RI_1YR_ALL_UPFRONT
           /\ price_index[k].upfront_fee \notin {None, 0}
           /\ price_index[k].annual_cost
                  = price_index[k].upfront_fee + price_index[k].monthly_fee * 12
    /\ \E k \in DOMAIN price_index :
           /\ ~price_index[k].is_available
           /\ price_index[k].annual_cost = None
    /\ \E k \in DOMAIN offered :
           /\ price_index[k].annual_cost # AnnualFormula(price_index[k])
           /\ price_index[k].annual_cost = db[k].annual_cost

\* C21: a 3-year reserved record constructed with both fees and no annual
\* cost has annual_cost = upfront_fee + monthly_fee x 36, and no annual cost
\* when a fee is missing.
C21_ThreeYearAnnual ==
    \A k \in DOMAIN price_index :
        k[3] \in {RI_3YR_NO_UPFRONT, RI_3YR_ALL_UPFRONT} =>
            price_index[k].annual_cost =
                IF /\ price_index[k].upfront_fee # None
                   /\ price_index[k].monthly_fee # None
                THEN price_index[k].upfront_fee
                     + price_index[k].monthly_fee * 36
                ELSE None

-----------------------------------------------------------------------------
(* _parse_sga_advice applied to SGA-ADVICE sections                        *)

\* Largest number of data lines of an SGA-ADVICE section.
MaxAdviceRows == 3

\* Header lines: the usual one, one without INST_ID, one without
\* ESTD_DB_TIME_FACTOR.
SgaHeaders ==
    {SgaHeader,
     <<"SGA_SIZE", "SGA_SIZE_FACTOR", "ESTD_DB_TIME", "ESTD_DB_TIME_FACTOR">>,
     <<"INST_ID", "SGA_SIZE", "SGA_SIZE_FACTOR", "ESTD_DB_TIME">>}

\* The advice rows: member, size, size factor and DB time factor, the last
\* two rows with a token float() rejects.
AdviceRows ==
    {[inst |-> Num(1), size |-> Num(16000), factor |-> Num(1000),
      db_time_factor |-> Num(1000)],
     [inst |-> Num(1), size |-> Num(24000), factor |-> Num(1500),
      db_time_factor |-> Num(900)],
     [inst |-> Num(1), size |-> Num(32000), factor |-> Num(2000),
      db_time_factor |-> Num(850)],
     [inst |-> Num(1), size |-> Num(8000), factor |-> Num(500),
      db_time_factor |-> Num(1200)],
     [inst |-> Num(2), size |-> Num(4000), factor |-> Num(1000),
      db_time_factor |-> Num(800)],
     [inst |-> Num(1), size |-> Num(20000), factor |-> Num(990),
      db_time_factor |-> Num(950)],
     [inst |-> Num(1), size |-> Num(15875), factor |-> Num(995),
      db_time_factor |-> Str("N/A")],
     [inst |-> Num(1), size |-> Str("N/A"), factor |-> Num(1000),
      db_time_factor |-> Num(800)]}

\* The sections the parser is applied to.
SgaSections ==
    {EmptyFn, [headers |-> <<>>, lines |-> <<>>]}
    \cup {[headers |-> headers,
           lines |-> [i \in 1..n |-> SgaLine(headers, rs[i])]] :
             headers \in SgaHeaders,
             n \in 0..MaxAdviceRows,
             rs \in [1..MaxAdviceRows -> AdviceRows]}

InitSga ==
    /\ PricingIdle
    /\ section \in SgaSections
    /\ rows = <<>>
    /\ main_metrics = EmptyFn
    /\ fs = EmptyFn
    /\ pc = "sga_advice"
    /\ out_parsed = <<>>
    /\ merged = EmptyFn
    /\ doc_info = EmptyFn

\* _parse_sga_advice(content) runs from the section to its return; the dict
\* it returns is kept in main_metrics.
ParseSgaAdvice ==
    /\ pc = "sga_advice"
    /\ main_metrics' = sga_advice_result(section)
    /\ pc' = "returned"
    /\ UNCHANGED <<section, rows, fs, out_parsed, merged, doc_info>>
    /\ UNCHANGED pricingVars

NextSga == ParseSgaAdvice

SpecSga == InitSga /\ [][NextSga]_vars

\* The data lines of the first member whose size and size factor are
\* numbers.
AdviceOfFirstMember ==
    {i \in 1..Len(section.lines) :
        LET line == section.lines[i]
            idx(h) == col_map(section.headers, h) + 1
        IN  /\ col_map(section.headers, "INST_ID") # None
                => line[idx("INST_ID")] = Num(1)
            /\ line[idx("SGA_SIZE")].num
            /\ line[idx("SGA_SIZE_FACTOR")].num}

\* Those at a size factor less than 0.01 away from 1.00.
AdviceAtCurrent ==
    {i \in AdviceOfFirstMember :
        LET f == section.lines[i][col_map(section.headers,
                                          "SGA_SIZE_FACTOR") + 1].v
        IN  f > 990 /\ f < 1010}

\* Those with a DB time factor of at most 0.90.
AdviceWithinImpact ==
    {i \in AdviceOfFirstMember :
        /\ col_map(section.headers, "ESTD_DB_TIME_FACTOR") # None
        /\ LET t == section.lines[i][col_map(section.headers,
                                             "ESTD_DB_TIME_FACTOR") + 1]
           IN  t.num /\ t.v <= 900}

AdviceSize(i) == section.lines[i][col_map(section.headers, "SGA_SIZE") + 1].v

\* C22: from the advice rows of the first member only, the current size is
\* the size of the row at size factor 1.00 (less than 0.01 away) and the
\* recommended size is the smallest size among the rows whose DB time factor
\* is at most 0.90; the rows of other members influence neither.
C22_SgaAdvice ==
    pc = "returned" /\ section # EmptyFn /\ section.headers # <<>> =>
        /\ "current_sga_gb" \in DOMAIN main_metrics <=> AdviceAtCurrent # {}
        /\ AdviceAtCurrent # {} =>
               main_metrics["current_sga_gb"]
                   \in {AdviceSize(i) : i \in AdviceAtCurrent}
        /\ "recommended_sga_gb" \in DOMAIN main_metrics
               <=> AdviceWithinImpact # {}
        /\ AdviceWithinImpact # {} =>
               /\ main_metrics["recommended_sga_gb"]
                      \in {AdviceSize(i) : i \in AdviceWithinImpact}
               /\ \A i \in AdviceWithinImpact :
                      main_metrics["recommended_sga_gb"] <= AdviceSize(i)

\* A section with a smaller size of the second member at factor 1.00 and a
\* DB time factor of 0.80 between the rows of the first member.
C22_Witness ==
    /\ pc = "returned"
    /\ section # EmptyFn
    /\ section.headers = SgaHeader
    /\ Len(section.lines) = 3
    /\ section.lines[2][1] = Num(2)
    /\ section.lines[2][2] = Num(4000)
    /\ main_metrics = [current_sga_gb |-> 16000, recommended_sga_gb |-> 24000]


-----------------------------------------------------------------------------
(* Malformed rows of the main metrics section                              *)

\* The number of tokens of a complete data line: one per header, and one
\* more for the time the 'end' column prints after the date.
FullLength(headers) ==
    Len(headers) + (IF EndPosition(headers) > 0 THEN 1 ELSE 0)

\* A data line that is neither cut short nor holds text for a number.
WellFormed(line, headers) ==
    Len(line) >= FullLength(headers) /\ GoodLine(line, headers)

\* C23: a data line with too few tokens, or with a non-numeric token where
\* a number is expected, contributes to no aggregate: the metrics returned
\* are those of the section without its malformed lines.
C23_MalformedRowSkipped ==
    (pc = "returned" /\ section # EmptyFn /\ section.headers # <<>>)
    => main_metrics =
           parse_main_metrics_full(
               [section EXCEPT
                   !.lines = SelectSeq(@,
                                 LAMBDA l : WellFormed(l, section.headers))])


-----------------------------------------------------------------------------
(* The network volumes of one dump: the SYSSTAT section, the MAIN-METRICS  *)
(* section and the conversion to daily volumes                             *)

\* Largest number of data lines of a SYSSTAT section.
MaxSysstatRows == 2

\* The header of the section, without and with a dur_m column of its own.
SysstatHeaders ==
    {<<"SNAP_ID", "network_incoming_mb", "network_outgoing_mb">>,
     <<"SNAP_ID", "dur_m", "network_incoming_mb", "network_outgoing_mb">>}

\* One data line under a header; the section's own window is 30 minutes.
RECURSIVE SysstatLine(_, _)
SysstatLine(headers, r) ==
    IF headers = <<>>
    THEN <<>>
    ELSE (IF Head(headers) = "dur_m"
          THEN <<Num(30000)>> ELSE <<r[Head(headers)]>>)
             \o SysstatLine(Tail(headers), r)

\* The data lines: volumes of 60, 120 and 240 MB, a figure that is not a
\* number, and a line cut short.
SysstatRows ==
    {[SNAP_ID |-> Num(1), network_incoming_mb |-> Num(60000),
      network_outgoing_mb |-> Num(120000)],
     [SNAP_ID |-> Num(2), network_incoming_mb |-> Num(120000),
      network_outgoing_mb |-> Num(240000)],
     [SNAP_ID |-> Num(3), network_incoming_mb |-> Num(240000),
      network_outgoing_mb |-> Num(60000)],
     [SNAP_ID |-> Num(4), network_incoming_mb |-> Num(120000),
      network_outgoing_mb |-> Str("N/A")],
     [SNAP_ID |-> Num(5), network_incoming_mb |-> Str("N/A"),
      network_outgoing_mb |-> Num(120000)]}

SysstatSections ==
    {EmptyFn, [headers |-> <<>>, lines |-> <<>>]}
    \cup {[headers |-> headers,
           lines |-> [i \in 1..Len(rs) |-> SysstatLine(headers, rs[i])]] :
             headers \in SysstatHeaders,
             rs \in UNION {[1..n -> SysstatRows] : n \in 0..MaxSysstatRows}}

\* The MAIN-METRICS section: absent, or one snapshot of one member with a
\* sampling window of 30 or of 60 minutes.
NetworkMainSections ==
    {EmptyFn}
    \cup {[headers |-> UsualHeader,
           lines |-> <<DataLine(UsualHeader, 1, 1,
                                [DumpMembers[1] EXCEPT !.dur_m = d])>>] :
             d \in {30000, 60000}}

InitNetwork ==
    /\ PricingIdle
    /\ section \in [main_metrics : NetworkMainSections,
                    sysstat : SysstatSections]
    /\ rows = <<>>
    /\ main_metrics = EmptyFn
    /\ fs = EmptyFn
    /\ pc = "network"
    /\ out_parsed = <<>>
    /\ merged = EmptyFn
    /\ doc_info = EmptyFn

\* The network dict of one dump, from its two sections to the daily volumes.
ParseNetwork ==
    /\ pc = "network"
    /\ main_metrics' =
           network_daily_bytes(sysstat_result(section.sysstat),
                               parse_main_metrics_full(section.main_metrics))
    /\ pc' = "returned"
    /\ UNCHANGED <<section, rows, fs, out_parsed, merged, doc_info>>
    /\ UNCHANGED pricingVars

NextNetwork == ParseNetwork

SpecNetwork == InitNetwork /\ [][NextNetwork]_vars

\* The dur_m the SYSSTAT section itself gives: the figure of its first data
\* line under a dur_m column, None without such a column or figure.
OwnDurM(sec) ==
    IF sec = EmptyFn \/ sec.headers = <<>>
       \/ col_map(sec.headers, "dur_m") = None \/ sec.lines = <<>>
    THEN None
    ELSE sec.lines[1][col_map(sec.headers, "dur_m") + 1].v \div 1000

\* The dur_m of the MAIN-METRICS section of the dump, None without one.
PrimaryDurM(sec) ==
    IF sec = EmptyFn THEN None ELSE sec.lines[1][2].v \div 1000

\* The sampling window the network volumes are to be converted with.
WindowOf(content) ==
    IF OwnDurM(content.sysstat) # None
    THEN OwnDurM(content.sysstat)
    ELSE IF PrimaryDurM(content.main_metrics) # None
    THEN PrimaryDurM(content.main_metrics)
    ELSE DEFAULT_DUR_M

\* C24: the network megabytes of the SYSSTAT section are converted to a
\* daily volume with the section's own dur_m when it has one, otherwise
\* with the dur_m of the MAIN-METRICS section, and with 60 minutes only
\* when neither has one.
C24_WindowPriority ==
    pc = "returned" =>
        LET sysstat == sysstat_result(section.sysstat)
        IN  /\ "sent_bytes_per_day" \in DOMAIN main_metrics =>
                   main_metrics["sent_bytes_per_day"] =
                       (sysstat["network_outgoing_mb"] * MINUTES_PER_DAY)
                           \div WindowOf(section)
            /\ "recv_bytes_per_day" \in DOMAIN main_metrics =>
                   main_metrics["recv_bytes_per_day"] =
                       (sysstat["network_incoming_mb"] * MINUTES_PER_DAY)
                           \div WindowOf(section)


-----------------------------------------------------------------------------
(* The database size of the record parse() returns                         *)

\* C25: in the record parse() returns, storage_growth.current_db_size_gb
\* and db_size_gb are equal whenever either of them is set.
C25_SizesSynchronized ==
    (/\ pc = "done"
     /\ doc_info.db_size_gb # None \/ doc_info.current_db_size_gb # None)
    => doc_info.db_size_gb = doc_info.current_db_size_gb


-----------------------------------------------------------------------------
(* document_parser.py: the target engine of migration_recommendation.md.   *)
(* A text is the sequence of its characters.                                *)

\* _TARGET_ENGINE_MAP, in the order of the dict.
TARGET_ENGINE_MAP ==
    <<[keyword |->
           <<"a", "u", "r", "o", "r", "a", " ", "p", "o", "s", "t", "g",
             "r", "e", "s", "q", "l">>,
       engine_code |-> "aurora-postgresql"],
      [keyword |->
           <<"a", "u", "r", "o", "r", "a", " ", "p", "o", "s", "t", "g",
             "r", "e", "s">>,
       engine_code |-> "aurora-postgresql"],
      [keyword |->
           <<"a", "u", "r", "o", "r", "a", " ", "m", "y", "s", "q", "l">>,
       engine_code |-> "aurora-mysql"],
      [keyword |->
           <<"r", "d", "s", " ", "f", "o", "r", " ", "p", "o", "s", "t",
             "g", "r", "e", "s", "q", "l">>,
       engine_code |-> "postgresql"],
      [keyword |->
           <<"r", "d", "s", " ", "p", "o", "s", "t", "g", "r", "e", "s",
             "q", "l">>,
       engine_code |-> "postgresql"],
      [keyword |->
           <<"r", "d", "s", " ", "f", "o", "r", " ", "m", "y", "s", "q",
             "l">>,
       engine_code |-> "mysql"],
      [keyword |->
           <<"r", "d", "s", " ", "m", "y", "s", "q", "l">>,
       engine_code |-> "mysql"],
      [keyword |->
           <<"r", "d", "s", " ", "f", "o", "r", " ", "s", "q", "l", " ",
             "s", "e", "r", "v", "e", "r">>,
       engine_code |-> "sqlserver-ee"],
      [keyword |->
           <<"r", "d", "s", " ", "s", "q", "l", " ", "s", "e", "r", "v",
             "e", "r">>,
       engine_code |-> "sqlserver-ee"],
      [keyword |->
           <<"r", "d", "s", " ", "f", "o", "r", " ", "o", "r", "a", "c",
             "l", "e", " ", "s", "e", "2">>,
       engine_code |-> "oracle-se2"],
      [keyword |->
           <<"o", "r", "a", "c", "l", "e", " ", "s", "e", "2">>,
       engine_code |-> "oracle-se2"],
      [keyword |->
           <<"r", "d", "s", " ", "f", "o", "r", " ", "o", "r", "a", "c",
             "l", "e", " ", "e", "e">>,
       engine_code |-> "oracle-ee"],
      [keyword |->
           <<"o", "r", "a", "c", "l", "e", " ", "e", "e">>,
       engine_code |-> "oracle-ee"],
      [keyword |->
           <<"r", "d", "s", " ", "f", "o", "r", " ", "o", "r", "a", "c",
             "l", "e">>,
       engine_code |-> "oracle-ee"]>>

UpperCase ==
    <<"A", "B", "C", "D", "E", "F", "G", "H", "I", "J", "K", "L", "M", "N",
      "O", "P", "Q", "R", "S", "T", "U", "V", "W", "X", "Y", "Z">>

LowerCase ==
    <<"a", "b", "c", "d", "e", "f", "g", "h", "i", "j", "k", "l", "m", "n",
      "o", "p", "q", "r", "s", "t", "u", "v", "w", "x", "y", "z">>

\* str.lower()
lower(text) ==
    [i \in 1..Len(text) |->
        IF \E j \in 1..26 : UpperCase[j] = text[i]
        THEN LowerCase[CHOOSE j \in 1..26 : UpperCase[j] = text[i]]
        ELSE text[i]]

\* keyword in target_text
contains(target_text, keyword) ==
    \E i \in 0..(Len(target_text) - Len(keyword)) :
        \A j \in 1..Len(keyword) : target_text[i + j] = keyword[j]

\* The loop over the items of the map from entry i on: the engine code of
\* the first keyword the text contains, "" when it contains none.
RECURSIVE first_match(_, _)
first_match(target_text, i) ==
    IF i > Len(TARGET_ENGINE_MAP)
    THEN ""
    ELSE IF contains(target_text, TARGET_ENGINE_MAP[i].keyword)
    THEN TARGET_ENGINE_MAP[i].engine_code
    ELSE first_match(target_text, i + 1)

\* _parse_migration_recommendation, the target engine: the result dict for
\* the text after the recommended-target label.
target_engine_result(text) ==
    LET engine_code == first_match(lower(text), 1)
    IN  IF engine_code = "" THEN EmptyFn ELSE [target_engine |-> engine_code]

\* Engine names as a recommendation writes them.
EngineNames ==
    {<<"A", "u", "r", "o", "r", "a", " ", "P", "o", "s", "t", "g", "r", "e",
      "S", "Q", "L">>,
     <<"A", "u", "r", "o", "r", "a", " ", "M", "y", "S", "Q", "L">>,
     <<"R", "D", "S", " ", "f", "o", "r", " ", "P", "o", "s", "t", "g", "r",
      "e", "S", "Q", "L">>,
     <<"R", "D", "S", " ", "f", "o", "r", " ", "M", "y", "S", "Q", "L">>,
     <<"R", "D", "S", " ", "f", "o", "r", " ", "S", "Q", "L", " ", "S", "e",
      "r", "v", "e", "r">>,
     <<"R", "D", "S", " ", "f", "o", "r", " ", "O", "r", "a", "c", "l", "e",
      " ", "S", "E", "2">>,
     <<"R", "D", "S", " ", "f", "o", "r", " ", "O", "r", "a", "c", "l", "e",
      " ", "E", "E">>,
     <<"R", "D", "S", " ", "f", "o", "r", " ", "O", "r", "a", "c", "l", "e">>,
     <<"O", "r", "a", "c", "l", "e", " ", "S", "E", "2">>,
     <<"D", "y", "n", "a", "m", "o", "D", "B">>}

\* The separator of two names in one line.
Separator == <<" ", "/", " ">>

\* The text after the label: one engine name, or two.
TargetTexts ==
    EngineNames \cup {a \o Separator \o b : a, b \in EngineNames}

InitTarget ==
    /\ PricingIdle
    /\ section \in TargetTexts
    /\ rows = <<>>
    /\ main_metrics = EmptyFn
    /\ fs = EmptyFn
    /\ pc = "target"
    /\ out_parsed = <<>>
    /\ merged = EmptyFn
    /\ doc_info = EmptyFn

ParseTargetEngine ==
    /\ pc = "target"
    /\ main_metrics' = target_engine_result(section)
    /\ pc' = "returned"
    /\ UNCHANGED <<section, rows, fs, out_parsed, merged, doc_info>>
    /\ UNCHANGED pricingVars

NextTarget == ParseTargetEngine

SpecTarget == InitTarget /\ [][NextTarget]_vars

\* The entries of the map whose keyword the text contains, and the longest
\* of them.
MatchingEntries(text) ==
    {i \in 1..Len(TARGET_ENGINE_MAP) :
        contains(lower(text), TARGET_ENGINE_MAP[i].keyword)}

LongestEntries(text) ==
    {i \in MatchingEntries(text) :
        \A j \in MatchingEntries(text) :
            Len(TARGET_ENGINE_MAP[j].keyword)
                <= Len(TARGET_ENGINE_MAP[i].keyword)}

\* C26: when the text of the recommended-target line contains more than
\* one keyword of the map, the engine code selected is that of the longest
\* keyword it contains.
C26_LongestKeywordWins ==
    (pc = "returned" /\ MatchingEntries(section) # {})
    => /\ "target_engine" \in DOMAIN main_metrics
       /\ \E i \in LongestEntries(section) :
              main_metrics["target_engine"] = TARGET_ENGINE_MAP[i].engine_code


-----------------------------------------------------------------------------
(* The growth rate of the projection                                       *)

\* C27: the growth rate applied in the projection is the yearly growth rate
\* of the parsed storage growth whenever a source gives one, and 15 % only
\* when none does (the field then holds its default, 15).
C27_SuppliedRateApplied ==
    (phase = "built" /\ run_args \in BuildInputs)
    => /\ data["yearly_growth_rate"].v = run_args.yearly_growth_rate_percent
       /\ run_args.engine \notin AURORA_ENGINES =>
              data["stor_cost_1y"] =
                  Fmt(calc_storage_costs(
                          run_args.db_size_gb
                              * (100 + run_args.yearly_growth_rate_percent),
                          100, run_args.prov_iops, run_args.prov_tp).storage)


-----------------------------------------------------------------------------
(* Claims about the records and the cache of fetch_all                     *)

\* The records of a finished fetch_all for pricing type pt.
RecordsFor(t, pt) ==
    {i \in 1..Len(tasks[t].records) : tasks[t].records[i].pricing_type = pt}

\* C28: whatever the cache holds when fetch_all is called and whether or
\* not the API call succeeds, fetch_all returns three records, exactly one
\* for each pricing type it asks for.
C28_OneRecordPerOption ==
    \A t \in 1..Len(tasks) :
        tasks[t].pc = "done" =>
            /\ Len(tasks[t].records) = 3
            /\ \A i \in 1..Len(pricing_types) :
                   Cardinality(RecordsFor(t, pricing_types[i])) = 1

\* C28 witness: a fetch_all called with the on-demand record cached and
\* another record not, whose API call fails, has returned three records.
C28_Witness ==
    \E t \in 1..Len(tasks) :
        /\ tasks[t].pc = "done"
        /\ 1 \in tasks[t].hit
        /\ tasks[t].hit # 1..Len(pricing_types)
        /\ tasks[t].response.failed
        /\ Len(tasks[t].records) = 3


\* C29: the cache only ever holds available records: a fetch_all that ends
\* with an unavailable record for a pricing type stores nothing under its
\* key, and a fetch_all called while a key of its spec is not cached makes
\* the API call again.
C29_CacheHoldsAvailableOnly ==
    [][/\ \A k \in DOMAIN cache' : cache'[k].is_available
       /\ \A t \in 1..Len(tasks) :
              (tasks[t].pc = "awaiting" /\ tasks'[t].pc = "done") =>
                  \A i \in 1..Len(tasks'[t].records) :
                      ~tasks'[t].records[i].is_available =>
                          cache_key(tasks[t].spec, pricing_types[i])
                              \notin DOMAIN cache' \ DOMAIN cache
       /\ Len(tasks') > Len(tasks) =>
              LET new == tasks'[Len(tasks')]
              IN  (\E i \in 1..Len(pricing_types) :
                       cache_key(new.spec, pricing_types[i])
                           \notin DOMAIN cache)
                  => new.pc = "awaiting"]_vars

\* C29 witness: a first fetch_all ended with an available and an
\* unavailable record; a later fetch_all for the same spec, called with the
\* first record cached and the second one not, has made the API call, and
\* the key is still not cached.
C29_Witness ==
    \E t1, t2 \in 1..Len(tasks) : \E i \in 1..Len(pricing_types) :
        /\ t1 < t2
        /\ tasks[t1].spec = tasks[t2].spec
        /\ tasks[t1].pc = "done"
        /\ tasks[t1].hit = {}
        /\ ~tasks[t1].records[i].is_available
        /\ tasks[t2].pc = "done"
        /\ tasks[t2].hit # {}
        /\ i \notin tasks[t2].hit
        /\ tasks[t2].response # NoResponse
        /\ cache_key(tasks[t1].spec, pricing_types[i]) \notin DOMAIN cache


-----------------------------------------------------------------------------
(* The order of the phases of run_v2                                       *)

\* C30: the phases of run_v2 are strictly ordered.  The fallback starts
\* only when every fetch_all of the gather has returned, with all their
\* records stored; while it runs no lookup returns and the cache is not
\* written; the price index is built only when no fallback row is pending,
\* and holds every price the store holds; from then on the records, the
\* store and the index do not change, and the template data is computed
\* with the index as it stands.
C30_PhasesOrdered ==
    [][/\ (phase = "fetch" /\ phase' = "fallback") =>
              /\ \A t \in 1..Len(tasks) : tasks[t].pc = "done"
              /\ all_records' =
                     Flatten([t \in 1..Len(tasks) |-> tasks[t].records])
              /\ \A i \in 1..Len(all_records') :
                     RecordKey(all_records'[i]) \in DOMAIN db'
       /\ phase \in {"fallback", "indexed", "built"} =>
              /\ phase' \in {"fallback", "indexed", "built"}
              /\ UNCHANGED <<tasks, cache>>
       /\ (phase = "fallback" /\ phase' = "indexed") =>
              /\ pending = <<>>
              /\ \A k \in DOMAIN price_index' :
                     db'[k].is_available => price_index'[k].is_available
       /\ phase \in {"indexed", "built"} =>
              /\ phase' = "built"
              /\ UNCHANGED <<all_records, db, pending, price_index>>]_vars

\* C30 witness: the template data is built after a gather in which an API
\* call failed and a fallback that found an offering; no row is pending.
C30_Witness ==
    /\ phase = "built"
    /\ data # EmptyFn
    /\ pending = <<>>
    /\ DOMAIN offered # {}
    /\ \E t \in 1..Len(tasks) : tasks[t].response.failed
    /\ \A t \in 1..Len(tasks) : tasks[t].pc = "done"

====
